---- MODULE Spec2Model ----
(***************************************************************************)
(* Model of the HTTP routing / dispatch engine of cloudflare-kit           *)
(* (src/src/core/app.ts, createApp) together with the CORS middleware of   *)
(* src/src/core/middleware.ts, and of the rate limiter, the WebSocket      *)
(* handler, the plugin registry, the tagged cache, the JWT auth and the     *)
(* validation schemas of the same library.                                 *)
(*                                                                         *)
(* The module holds one specification per component:                       *)
(*   Spec            registration of routes, then one request              *)
(*   SpecRequests    concurrent requests to a configured application       *)
(*   SpecLimiter     concurrent consume calls on one rate limiter          *)
(*   SpecWebSocket   upgrade requests and socket events of one handler     *)
(*   SpecPlugins     register and installAll of one plugin registry        *)
(*   SpecCache       concurrent setWithTags / invalidateByTag on one cache *)
(*   SpecAuth        createToken and verifyToken of one auth object        *)
(*   SpecSchema      building a string schema by chaining, then parse      *)
(* In each of them the variables of the other components stay at rest.     *)
(*                                                                         *)
(* Strings that the code inspects character by character (path templates,  *)
(* pathnames, regular-expression sources) are sequences of one-character   *)
(* strings; all other strings are TLA+ strings.                            *)
(***************************************************************************)
EXTENDS Integers, Sequences, FiniteSets, TLC

VARIABLES
    corsOptions,    \* the options object given to corsMiddleware(...)
    middlewares,    \* createApp: const middlewares (global middleware list)
    routes,         \* createApp: const routes (the route table)
    router,         \* the facade of the group callback in progress, or NoRouter
    phase,          \* "setup" while routes are registered, then "serving"
    pc,             \* position of the request inside fetch
    context,        \* the RouterContext of the request in flight
    match,          \* fetch: const match = findRoute(method, pathname)
    idx,            \* executeMiddlewares: position in the list being run
    log,            \* the functions invoked for the request, in order
    console,        \* what console.error was given for the request
    result,         \* the Response a middleware or the handler returned
    response,       \* the Response fetch resolved with
    returnedAt,     \* the return statement of fetch that produced it
    appOptions,     \* createApp(options): the configuration object
    requests,       \* the calls of fetch in flight, one record per request
    contexts,       \* the RouterContext objects allocated so far
    limiter,        \* createRateLimiter(config): store, maxRequests
    kv,             \* the KV namespace or the Map behind the store
    callers,        \* the calls of consume, one record per call
    wsOptions,      \* createWebSocketHandler(options)
    connections,    \* the Set of tracked server sockets of the handler
    sockets,        \* the upgrade requests and the sockets they created
    plugins,        \* PluginRegistry: the Map of entries, in insertion order
    installation,   \* the call of installAll in progress
    namespace,      \* the KV namespace behind createCache
    tagCalls,       \* the calls of setWithTags and invalidateByTag
    authorization,  \* the Authorization header given to verifyToken
    authResult,     \* the AuthResult verifyToken resolved with
    schema,         \* the schema object built so far
    validation      \* the value given to parse and its ValidationResult

appVars == <<corsOptions, middlewares, routes, router, phase, pc, context, match,
             idx, log, console, result, response, returnedAt>>

requestsVars == <<appOptions, requests, contexts>>

limiterVars == <<limiter, kv, callers>>

socketVars == <<wsOptions, connections, sockets>>

pluginVars == <<plugins, installation>>

cacheVars == <<namespace, tagCalls>>

authVars == <<authorization, authResult>>

schemaVars == <<schema, validation>>

libraryVars == <<cacheVars, authVars, schemaVars>>

\* the variables Spec leaves at rest
otherVars == <<requestsVars, limiterVars, socketVars, pluginVars, libraryVars>>

vars == <<appVars, otherVars>>

----------------------------------------------------------------------------
(* Bounds of the model *)

MaxRoutes == 2
MaxGlobal == 2
MaxRouterMiddleware == 1

----------------------------------------------------------------------------
(* Generic helpers on sequences *)

Range(s) == {s[i] : i \in 1..Len(s)}

Min(S) == CHOOSE x \in S : \A y \in S : x <= y

Max(S) == CHOOSE x \in S : \A y \in S : x >= y

RECURSIVE Flatten(_)
Flatten(ss) == IF ss = <<>> THEN <<>> ELSE Head(ss) \o Flatten(Tail(ss))

endsWith(s, suffix) ==
    /\ Len(s) >= Len(suffix)
    /\ SubSeq(s, Len(s) - Len(suffix) + 1, Len(s)) = suffix

----------------------------------------------------------------------------
(* Characters *)

UpperCase == [c \in {"A", "S", "U"} |->
                 CASE c = "A" -> "a" [] c = "S" -> "s" [] c = "U" -> "u"]

\* a RegExp compiled without the "i" flag
CanonicalizeExact(c) == c

\* canonical form of a character under the RegExp "i" flag
Canonicalize(c) == IF c \in DOMAIN UpperCase THEN UpperCase[c] ELSE c

\* [a-zA-Z_] and [a-zA-Z0-9_] restricted to the characters of the model
IdentStart == {"a", "i", "s", "u", "A", "S", "U", "_"}
IdentChar == IdentStart \cup {"7"}

\* the character class [.+^${}()|[\]\\] of parseRoutePattern
RegexSpecial == {".", "+", "^", "$", "{", "}", "(", ")", "|", "[", "]", "\\"}

----------------------------------------------------------------------------
(* parseRoutePattern: the template is turned into the source text of a     *)
(* regular expression, which new RegExp(source, "i") compiles              *)

\* path.replace(/[.+^${}()|[\]\\]/g, "\\$&")
EscapeSpecial(path) ==
    Flatten([i \in 1..Len(path) |->
                IF path[i] \in RegexSpecial THEN <<"\\", path[i]>> ELSE <<path[i]>>])

\* the text the second replace looks for in front of a name: the regular
\* expression literal /\\:(...)/ matches a backslash followed by a colon
ParamMarker == <<"\\", ":">>

\* the replacement text "([^/]+)"
CaptureGroup == <<"(", "[", "^", "/", "]", "+", ")">>

\* the text "(?:/.*)?" appended for a wildcard route
WildcardTail == <<"(", "?", ":", "/", ".", "*", ")", "?">>

\* whether the text `piece` stands in s at position i
At(s, i, piece) ==
    /\ i + Len(piece) - 1 <= Len(s)
    /\ SubSeq(s, i, i + Len(piece) - 1) = piece

\* last position of the longest identifier starting at position i of s
IdentEnd(s, i) ==
    Max({j \in i..Len(s) : \A k \in (i + 1)..j : s[k] \in IdentChar})

\* .replace(/\\:([a-zA-Z_][a-zA-Z0-9_]*)/g, (_, name) => { paramNames.push(name);
\*          return "([^/]+)"; }), scanning s from position i
RECURSIVE ReplaceParams(_, _)
ReplaceParams(s, i) ==
    IF i > Len(s) THEN [str |-> <<>>, paramNames |-> <<>>]
    ELSE IF /\ At(s, i, ParamMarker)
            /\ i + Len(ParamMarker) <= Len(s)
            /\ s[i + Len(ParamMarker)] \in IdentStart
    THEN LET first == i + Len(ParamMarker)
             last == IdentEnd(s, first)
             rest == ReplaceParams(s, last + 1)
         IN  [str |-> CaptureGroup \o rest.str,
              paramNames |-> <<SubSeq(s, first, last)>> \o rest.paramNames]
    ELSE LET rest == ReplaceParams(s, i + 1)
         IN  [str |-> <<s[i]>> \o rest.str, paramNames |-> rest.paramNames]

\* one element of a compiled regular expression:
\*   k = "bol" | "eol"   the assertions ^ and $
\*   k = "lit"           the character c, q = "*" when followed by a star
\*   k = "group"         the capturing group ([^/]+)
\*   k = "tail"          the non-capturing optional group (?:/.*)?
Token(k, c, q) == [k |-> k, c |-> c, q |-> q]

\* new RegExp(source, "i"), for the regular expressions parseRoutePattern
\* can produce from the templates of the model; src is read from position i
RECURSIVE RegExp(_, _)
RegExp(src, i) ==
    IF i > Len(src) THEN <<>>
    ELSE IF At(src, i, CaptureGroup)
    THEN <<Token("group", "", "1")>> \o RegExp(src, i + Len(CaptureGroup))
    ELSE IF At(src, i, WildcardTail)
    THEN <<Token("tail", "", "1")>> \o RegExp(src, i + Len(WildcardTail))
    ELSE IF src[i] = "^"
    THEN <<Token("bol", "", "1")>> \o RegExp(src, i + 1)
    ELSE IF src[i] = "$"
    THEN <<Token("eol", "", "1")>> \o RegExp(src, i + 1)
    ELSE LET escaped == src[i] = "\\" /\ i < Len(src)
             c == IF escaped THEN src[i + 1] ELSE src[i]
             next == IF escaped THEN i + 2 ELSE i + 1
         IN  IF next <= Len(src) /\ src[next] = "*"
             THEN <<Token("lit", c, "*")>> \o RegExp(src, next + 1)
             ELSE <<Token("lit", c, "1")>> \o RegExp(src, next)

parseRoutePattern(path) ==
    LET isWildcard == endsWith(path, <<"/", "*">>)
        stripped == IF isWildcard THEN SubSeq(path, 1, Len(path) - 2) ELSE path
        replaced == ReplaceParams(EscapeSpecial(stripped), 1)
        patternString == replaced.str \o (IF isWildcard THEN WildcardTail ELSE <<>>)
    IN  [pattern |-> RegExp(<<"^">> \o patternString \o <<"$">>, 1),
         paramNames |-> replaced.paramNames,
         isWildcard |-> isWildcard]

----------------------------------------------------------------------------
(* String.prototype.match with a compiled regular expression: the          *)
(* backtracking matcher, greedy quantifiers first                          *)

NoMatch == [ok |-> FALSE, caps |-> <<>>]

\* number of characters from position si on that satisfy the element t
RunLength(t, s, si) ==
    Max({n \in 0..(Len(s) - si + 1) :
            \A k \in 0..(n - 1) :
                CASE t.k = "lit" -> Canonicalize(s[si + k]) = Canonicalize(t.c)
                  [] t.k = "group" -> s[si + k] # "/"
                  [] OTHER -> TRUE})

RECURSIVE MatchFrom(_, _, _, _), Backtrack(_, _, _, _, _, _)

\* the elements from ti on against s from si on; caps are the captures
MatchFrom(toks, ti, s, si) ==
    IF ti > Len(toks) THEN [ok |-> TRUE, caps |-> <<>>]
    ELSE LET t == toks[ti] IN
         CASE t.k = "bol" ->
                 IF si = 1 THEN MatchFrom(toks, ti + 1, s, si) ELSE NoMatch
           [] t.k = "eol" ->
                 IF si = Len(s) + 1 THEN MatchFrom(toks, ti + 1, s, si) ELSE NoMatch
           [] t.k = "lit" /\ t.q = "1" ->
                 IF si <= Len(s) /\ Canonicalize(s[si]) = Canonicalize(t.c)
                 THEN MatchFrom(toks, ti + 1, s, si + 1)
                 ELSE NoMatch
           [] t.k = "lit" /\ t.q = "*" ->
                 Backtrack(toks, ti, s, si, RunLength(t, s, si), 0)
           [] t.k = "group" ->
                 Backtrack(toks, ti, s, si, RunLength(t, s, si), 1)
           [] t.k = "tail" ->
                 LET taken == IF si <= Len(s) /\ s[si] = "/"
                              THEN Backtrack(toks, ti, s, si + 1, Len(s) - si, 0)
                              ELSE NoMatch
                 IN  IF taken.ok THEN taken ELSE MatchFrom(toks, ti + 1, s, si)

\* element ti takes n characters, then n - 1, ... down to lo, until the rest
\* of the expression matches
Backtrack(toks, ti, s, si, n, lo) ==
    IF n < lo THEN NoMatch
    ELSE LET rest == MatchFrom(toks, ti + 1, s, si + n) IN
         IF rest.ok
         THEN IF toks[ti].k = "group"
              THEN [ok |-> TRUE, caps |-> <<SubSeq(s, si, si + n - 1)>> \o rest.caps]
              ELSE rest
         ELSE Backtrack(toks, ti, s, si, n - 1, lo)

\* pathname.match(pattern): the first start position that matches
StringMatch(s, pattern) ==
    LET starts == {si \in 1..(Len(s) + 1) : MatchFrom(pattern, 1, s, si).ok}
    IN  IF starts = {} THEN NoMatch ELSE MatchFrom(pattern, 1, s, Min(starts))

----------------------------------------------------------------------------
(* Inputs of the model *)

\* path templates given to app.get / app.post: "/u/:i", "/s/*", "/s/a"
Templates == { <<"/", "u", "/", ":", "i">>,
               <<"/", "s", "/", "*">>,
               <<"/", "s", "/", "a">> }

\* prefixes given to app.group and paths and methods given to the facade:
\* router.get("/a") inside app.group("/s") registers GET "/s/a"
GroupPrefixes == { <<"/", "s">> }
GroupPaths == { <<"/", "a">> }
GroupMethods == {"GET"}

\* pathnames of requests: "/s/a", "/S/a", "/u/7", "/u/:i", "/x"
Pathnames == { <<"/", "s", "/", "a">>,
               <<"/", "S", "/", "a">>,
               <<"/", "u", "/", "7">>,
               <<"/", "u", "/", ":", "i">>,
               <<"/", "x">> }

\* the (method, template) pairs of the calls of app.get and app.post
Registrations == ({"GET"} \X Templates) \cup { <<"POST", <<"/", "s", "/", "a">> >> }

RequestMethods == {"GET", "POST", "OPTIONS"}

\* String.prototype.toUpperCase on method names
toUpperCase(m) ==
    CASE m = "get" -> "GET"
      [] m = "post" -> "POST"
      [] m = "options" -> "OPTIONS"
      [] OTHER -> m

\* middleware functions: corsMiddleware(corsOptions) and the application's own
CorsMiddleware == "cors"
GlobalMiddleware == {CorsMiddleware, "A"}
RouterMiddleware == {"C"}

\* the options objects corsMiddleware is built from ("" for a missing origin)
CorsOptionSets == { [origin |-> "", credentials |-> FALSE],
                    [origin |-> "https://good.example", credentials |-> TRUE] }

\* header initialisers of the responses that handlers build
HandlerHeaders == { <<>>,
                    << <<"Access-Control-Allow-Origin", "https://evil.example">>,
                       <<"X-Custom", "1">> >> }

\* header initialiser of the responses that middleware build
MiddlewareHeaders == << <<"Content-Type", "text/plain">> >>

\* messages of the errors that middleware and handlers throw
Errors == {"db password: secret123", "boom"}

\* values crypto.randomUUID() can return
UUIDs == {"uuid-1", "uuid-2"}

----------------------------------------------------------------------------
(* Headers and responses *)

\* header names are case-insensitive: Headers stores them in lower case
HeaderName(name) ==
    CASE name = "Access-Control-Allow-Origin" -> "access-control-allow-origin"
      [] name = "Access-Control-Allow-Methods" -> "access-control-allow-methods"
      [] name = "Access-Control-Allow-Headers" -> "access-control-allow-headers"
      [] name = "Access-Control-Allow-Credentials" -> "access-control-allow-credentials"
      [] name = "Content-Type" -> "content-type"
      [] name = "X-Custom" -> "x-custom"
      [] name = "Allow" -> "allow"
      [] OTHER -> name

NoHeaders == [n \in {} |-> ""]

\* Headers.prototype.set
HeadersSet(headers, name, value) ==
    [n \in DOMAIN headers \cup {HeaderName(name)} |->
        IF n = HeaderName(name) THEN value ELSE headers[n]]

\* new Headers(init) for a list of [name, value] entries without repeated names,
\* and the loop of applyCorsHeaders: set every entry in order
RECURSIVE SetAll(_, _)
SetAll(headers, entries) ==
    IF entries = <<>> THEN headers
    ELSE SetAll(HeadersSet(headers, Head(entries)[1], Head(entries)[2]), Tail(entries))

Headers(init) == SetAll(NoHeaders, init)

\* new Response(body, {status, headers})
Response(body, status, init) ==
    [status |-> status, body |-> body, headers |-> Headers(init)]

\* the body of new Response(null)
NullBody == [length |-> 0]

NoResponse == Response(NullBody, 0, <<>>)

\* Array.prototype.join(", ")
RECURSIVE Join(_)
Join(list) ==
    IF Len(list) <= 1 THEN list
    ELSE <<Head(list), ", ">> \o Join(Tail(list))

\* applyCorsHeaders adding only the headers the response does not have yet
applyCorsHeadersIfAbsent(resp, corsHeaders) ==
    IF corsHeaders = <<>> THEN resp
    ELSE [status |-> resp.status,
          body |-> resp.body,
          headers |-> resp.headers @@ Headers(corsHeaders[1])]

applyCorsHeaders(resp, corsHeaders) ==
    IF corsHeaders = <<>> THEN resp
    ELSE [status |-> resp.status,
          body |-> resp.body,
          headers |-> SetAll(resp.headers, corsHeaders[1])]

----------------------------------------------------------------------------
(* The route table *)

EmptyParams == [n \in {} |-> <<>>]

NoRoute == [found |-> FALSE, route |-> 0, params |-> EmptyParams]

Route(method, path, handler, groupMiddleware) ==
    LET parsed == parseRoutePattern(path)
    IN  [method |-> toUpperCase(method),
         path |-> path,
         pattern |-> parsed.pattern,
         paramNames |-> parsed.paramNames,
         handler |-> handler,
         isWildcard |-> parsed.isWildcard,
         middleware |-> groupMiddleware]

\* params of a pattern match: route.paramNames.forEach((name, index) =>
\* params[name] = match[index + 1] || ""), then the wildcard part
ExtractParams(route, caps) ==
    LET names == route.paramNames
        named == [n \in Range(names) |->
                     LET last == Max({i \in 1..Len(names) : names[i] = n})
                     IN  IF last <= Len(caps) THEN caps[last] ELSE <<>>]
        w == Len(names) + 1
        hasWildcard == route.isWildcard /\ w <= Len(caps) /\ caps[w] # <<>>
        stripped == IF hasWildcard /\ Head(caps[w]) = "/" THEN Tail(caps[w])
                    ELSE IF hasWildcard THEN caps[w] ELSE <<>>
    IN  IF hasWildcard
        THEN [n \in DOMAIN named \cup {<<"*">>} |->
                 IF n = <<"*">> THEN stripped ELSE named[n]]
        ELSE named

\* routes.find((r) => r.method === upperMethod && r.path === pathname)
ExactRoutes(table, method, pathname) ==
    {i \in 1..Len(table) :
        table[i].method = toUpperCase(method) /\ table[i].path = pathname}

\* the routes the pattern loop of findRoute can stop at
PatternRoutes(table, method, pathname) ==
    {i \in 1..Len(table) :
        /\ table[i].method = toUpperCase(method)
        /\ StringMatch(pathname, table[i].pattern).ok}

\* findRoute without the exact-match pass
findRoutePatternOnly(table, method, pathname) ==
    LET byPattern == PatternRoutes(table, method, pathname)
    IN  IF byPattern # {}
        THEN LET i == Min(byPattern)
             IN  [found |-> TRUE, route |-> i,
                  params |-> ExtractParams(table[i],
                                           StringMatch(pathname, table[i].pattern).caps)]
        ELSE NoRoute

\* findRoute keeping the last match instead of returning the first
findRouteLastMatch(table, method, pathname) ==
    LET exact == ExactRoutes(table, method, pathname)
        byPattern == PatternRoutes(table, method, pathname)
    IN  IF exact # {}
        THEN [found |-> TRUE, route |-> Max(exact), params |-> EmptyParams]
        ELSE IF byPattern # {}
        THEN LET i == Max(byPattern)
             IN  [found |-> TRUE, route |-> i,
                  params |-> ExtractParams(table[i],
                                           StringMatch(pathname, table[i].pattern).caps)]
        ELSE NoRoute

\* findRoute with a later registration of a method and path taking the place
\* of an earlier one in the exact-match pass
findRouteLatestExact(table, method, pathname) ==
    LET exact == ExactRoutes(table, method, pathname)
        byPattern == PatternRoutes(table, method, pathname)
    IN  IF exact # {}
        THEN [found |-> TRUE, route |-> Max(exact), params |-> EmptyParams]
        ELSE IF byPattern # {}
        THEN LET i == Min(byPattern)
             IN  [found |-> TRUE, route |-> i,
                  params |-> ExtractParams(table[i],
                                           StringMatch(pathname, table[i].pattern).caps)]
        ELSE NoRoute

findRoute(table, method, pathname) ==
    LET exact == ExactRoutes(table, method, pathname)
        byPattern == PatternRoutes(table, method, pathname)
    IN  IF exact # {}
        THEN [found |-> TRUE, route |-> Min(exact), params |-> EmptyParams]
        ELSE IF byPattern # {}
        THEN LET i == Min(byPattern)
             IN  [found |-> TRUE, route |-> i,
                  params |-> ExtractParams(table[i],
                                           StringMatch(pathname, table[i].pattern).caps)]
        ELSE NoRoute

\* [...new Set(methods)]: the first occurrence of every method, in order
RECURSIVE Unique(_)
Unique(list) ==
    IF list = <<>> THEN <<>>
    ELSE LET front == Unique(SubSeq(list, 1, Len(list) - 1))
             last == list[Len(list)]
         IN  IF last \in Range(front) THEN front ELSE Append(front, last)

\* findPathWithoutMethod comparing paths only
findPathWithoutMethodExact(table, pathname) ==
    LET RECURSIVE Scan(_)
        Scan(i) == IF i > Len(table) THEN <<>>
                   ELSE IF table[i].path = pathname
                   THEN <<table[i].method>> \o Scan(i + 1)
                   ELSE Scan(i + 1)
    IN  Unique(Scan(1))

findPathWithoutMethod(table, pathname) ==
    LET hit(i) == \/ table[i].path = pathname
                  \/ StringMatch(pathname, table[i].pattern).ok
        RECURSIVE Scan(_)
        Scan(i) == IF i > Len(table) THEN <<>>
                   ELSE IF hit(i) THEN <<table[i].method>> \o Scan(i + 1)
                   ELSE Scan(i + 1)
    IN  Unique(Scan(1))

----------------------------------------------------------------------------
(* corsMiddleware(options) *)

CorsOrigin(options) == IF options.origin # "" THEN options.origin ELSE "*"

\* the headers of the preflight response
PreflightHeaders(options) ==
    << <<"Access-Control-Allow-Origin", CorsOrigin(options)>>,
       <<"Access-Control-Allow-Methods", "GET, POST, PUT, DELETE, PATCH, OPTIONS">>,
       <<"Access-Control-Allow-Headers", "Content-Type, Authorization">> >>
    \o (IF options.credentials
        THEN << <<"Access-Control-Allow-Credentials", "true">> >> ELSE <<>>)

\* the object stored in context.state.corsHeaders
StoredCorsHeaders(options) ==
    << <<"Access-Control-Allow-Origin", CorsOrigin(options)>> >>
    \o (IF options.credentials
        THEN << <<"Access-Control-Allow-Credentials", "true">> >> ELSE <<>>)

\* the middleware function: a response for OPTIONS, otherwise the headers are
\* stored in the state and undefined is returned
corsMiddleware(options, ctx) ==
    IF ctx.method = "OPTIONS"
    THEN [returns |-> TRUE,
          response |-> Response(NullBody, 204, PreflightHeaders(options)),
          context |-> ctx]
    ELSE [returns |-> FALSE,
          response |-> NoResponse,
          context |-> [ctx EXCEPT !.state.corsHeaders = <<StoredCorsHeaders(options)>>]]

----------------------------------------------------------------------------
(* The components at rest: nothing constructed, nothing in flight *)

AppAtRest ==
    /\ corsOptions = <<>> /\ middlewares = <<>> /\ routes = <<>> /\ router = <<>>
    /\ phase = "setup" /\ pc = "idle" /\ context = <<>> /\ match = <<>>
    /\ idx = 0 /\ log = <<>> /\ console = <<>> /\ result = <<>>
    /\ response = <<>> /\ returnedAt = "none"

RequestsAtRest == appOptions = <<>> /\ requests = <<>> /\ contexts = <<>>

LimiterAtRest == limiter = <<>> /\ kv = <<>> /\ callers = <<>>

SocketsAtRest == wsOptions = <<>> /\ connections = {} /\ sockets = <<>>

PluginsAtRest == plugins = <<>> /\ installation = <<>>

CacheAtRest == namespace = <<>> /\ tagCalls = <<>>

AuthAtRest == authorization = <<>> /\ authResult = <<>>

SchemaAtRest == schema = <<>> /\ validation = <<>>

LibrariesAtRest == CacheAtRest /\ AuthAtRest /\ SchemaAtRest

----------------------------------------------------------------------------
(* Initial state *)

NoRouter == [open |-> FALSE, prefix |-> <<>>, routerMiddleware |-> <<>>]

NoContext == [method |-> "", pathname |-> <<>>, params |-> EmptyParams,
              state |-> [corsHeaders |-> <<>>]]

Init ==
    /\ corsOptions \in CorsOptionSets
    /\ middlewares = <<>>
    /\ routes = <<>>
    /\ router = NoRouter
    /\ phase = "setup"
    /\ pc = "idle"
    /\ context = NoContext
    /\ match = NoRoute
    /\ idx = 0
    /\ log = <<>>
    /\ console = <<>>
    /\ result = NoResponse
    /\ response = NoResponse
    /\ returnedAt = "none"
    /\ RequestsAtRest /\ LimiterAtRest /\ SocketsAtRest /\ PluginsAtRest /\ LibrariesAtRest

requestVars == <<pc, context, match, idx, log, console, result, response, returnedAt>>

----------------------------------------------------------------------------
(* Registration: app.use, app.get / app.post, app.group and its facade *)

\* addRoute; the handler of a registration is a function of its own, named
\* here by the position of its route
addRoute(method, path, groupMiddleware) ==
    routes' = Append(routes, Route(method, path, Len(routes) + 1, groupMiddleware))

Use(m) ==
    /\ phase = "setup" /\ ~router.open
    /\ Len(middlewares) < MaxGlobal
    /\ middlewares' = Append(middlewares, m)
    /\ UNCHANGED <<corsOptions, routes, router, phase, requestVars, otherVars>>

AppRoute(method, path) ==
    /\ phase = "setup" /\ ~router.open
    /\ Len(routes) < MaxRoutes
    /\ addRoute(method, path, <<>>)
    /\ UNCHANGED <<corsOptions, middlewares, router, phase, requestVars, otherVars>>

\* app.group(prefix, callback) up to the call of the callback
GroupBegin(prefix) ==
    /\ phase = "setup" /\ ~router.open
    /\ Len(routes) < MaxRoutes
    /\ router' = [open |-> TRUE, prefix |-> prefix, routerMiddleware |-> <<>>]
    /\ UNCHANGED <<corsOptions, middlewares, routes, phase, requestVars, otherVars>>

\* router.use pushing the middleware onto the lists of the routes the facade
\* has registered as well (the lists shared instead of copied)
RouterUseRetroactive(m) ==
    /\ router.open
    /\ Len(router.routerMiddleware) < MaxRouterMiddleware
    /\ router' = [router EXCEPT !.routerMiddleware = Append(@, m)]
    /\ routes' = [i \in DOMAIN routes |->
                     IF /\ Len(routes[i].path) >= Len(router.prefix)
                        /\ SubSeq(routes[i].path, 1, Len(router.prefix)) = router.prefix
                     THEN [routes[i] EXCEPT !.middleware = Append(@, m)]
                     ELSE routes[i]]
    /\ UNCHANGED <<corsOptions, middlewares, phase, requestVars, otherVars>>

RouterUse(m) ==
    /\ router.open
    /\ Len(router.routerMiddleware) < MaxRouterMiddleware
    /\ router' = [router EXCEPT !.routerMiddleware = Append(@, m)]
    /\ UNCHANGED <<corsOptions, middlewares, routes, phase, requestVars, otherVars>>

\* router.get / router.post; group.middleware stays empty, so the list given
\* to addRoute is [...groupMiddleware, ...routerMiddleware] = routerMiddleware
RouterRoute(method, path) ==
    /\ router.open
    /\ Len(routes) < MaxRoutes
    /\ addRoute(method, router.prefix \o path, <<>> \o router.routerMiddleware)
    /\ UNCHANGED <<corsOptions, middlewares, router, phase, requestVars, otherVars>>

\* the callback returns
GroupEnd ==
    /\ router.open
    /\ router' = NoRouter
    /\ UNCHANGED <<corsOptions, middlewares, routes, phase, requestVars, otherVars>>

\* registration is over: the worker starts to serve requests
Listen ==
    /\ phase = "setup" /\ ~router.open
    /\ phase' = "serving"
    /\ UNCHANGED <<corsOptions, middlewares, routes, router, requestVars, otherVars>>

----------------------------------------------------------------------------
(* fetch *)

setupVars == <<corsOptions, middlewares, routes, router, phase>>

NotAllowedResponse(availableMethods) ==
    Response([error |-> "Method Not Allowed", allowed |-> availableMethods], 405,
             << <<"Content-Type", "application/json">>,
                <<"Allow", Join(availableMethods)>> >>)

NotFoundResponse(pathname, method) ==
    Response([error |-> "Not Found", path |-> pathname, method |-> method], 404,
             << <<"Content-Type", "application/json">> >>)

\* the 500 response with the message of the error in its body
ErrorResponseWithMessage(error, requestId) ==
    Response([error |-> "Internal Server Error", message |-> error,
              requestId |-> requestId], 500,
             << <<"Content-Type", "application/json">> >>)

ErrorResponse(error, requestId) ==
    Response([error |-> "Internal Server Error", requestId |-> requestId], 500,
             << <<"Content-Type", "application/json">> >>)

\* where fetch goes on when the i-th middleware of the route's list has
\* returned undefined (i = 0: before the list is run)
AfterRoute(m, i) ==
    IF i < Len(routes[m.route].middleware)
    THEN [pc |-> "route", idx |-> i + 1]
    ELSE [pc |-> "handler", idx |-> 0]

\* a dispatcher that answers 404 as soon as no route is found
AfterGlobalUnlessNotFound(m, i) ==
    IF ~m.found THEN [pc |-> "notfound", idx |-> 0]
    ELSE IF i < Len(middlewares) THEN [pc |-> "global", idx |-> i + 1]
    ELSE AfterRoute(m, 0)

\* the same for the global list
AfterGlobal(m, i) ==
    IF i < Len(middlewares) THEN [pc |-> "global", idx |-> i + 1]
    ELSE IF m.found THEN AfterRoute(m, 0)
    ELSE [pc |-> "notfound", idx |-> 0]

\* fetch resolves with resp, produced by the return statement `at`
Return(resp, at) ==
    /\ response' = resp
    /\ returnedAt' = at
    /\ pc' = "done"
    /\ idx' = 0

\* fetch goes on at position pos with context ctx
Proceed(pos, ctx) ==
    IF pos.pc = "notfound"
    THEN Return(NotFoundResponse(ctx.pathname, ctx.method), "404")
    ELSE /\ pc' = pos.pc
         /\ idx' = pos.idx
         /\ UNCHANGED <<response, returnedAt>>

\* a catch block that logs and throws the error again: fetch rejects
CatchAndRethrow(error, requestId) ==
    /\ console' = <<"Handler error:", error>>
    /\ Return(NoResponse, "rejected")

\* the catch block of fetch
Catch(error, requestId) ==
    /\ console' = <<"Handler error:", error>>
    /\ Return(ErrorResponse(error, requestId), "catch")

\* fetch with the 405 check placed after the run of the global middleware
\* (each of them returning undefined)
FetchNotAllowedLate(method, pathname) ==
    /\ phase = "serving" /\ pc = "idle"
    /\ LET m == findRoute(routes, method, pathname)
           availableMethods == findPathWithoutMethod(routes, pathname)
           ctx == [method |-> method, pathname |-> pathname, params |-> m.params,
                   state |-> [corsHeaders |-> <<>>]]
       IN  /\ match' = m
           /\ context' = ctx
           /\ IF ~m.found /\ Len(availableMethods) > 0
              THEN /\ log' = [k \in 1..Len(middlewares) |->
                                 [stage |-> "global", idx |-> k, fn |-> middlewares[k]]]
                   /\ Return(NotAllowedResponse(availableMethods), "405")
              ELSE /\ Proceed(AfterGlobal(m, 0), ctx)
                   /\ UNCHANGED log
    /\ UNCHANGED <<setupVars, console, result, otherVars>>

\* fetch from its start to the first await: findRoute, the 405 check and the
\* construction of the context
Fetch(method, pathname) ==
    /\ phase = "serving" /\ pc = "idle"
    /\ LET m == findRoute(routes, method, pathname)
           availableMethods == findPathWithoutMethod(routes, pathname)
           ctx == [method |-> method, pathname |-> pathname, params |-> m.params,
                   state |-> [corsHeaders |-> <<>>]]
       IN  /\ match' = m
           /\ context' = ctx
           /\ IF ~m.found /\ Len(availableMethods) > 0
              THEN Return(NotAllowedResponse(availableMethods), "405")
              ELSE Proceed(AfterGlobal(m, 0), ctx)
    /\ UNCHANGED <<setupVars, log, console, result, otherVars>>

\* the middleware executeMiddlewares is about to call
CurrentMiddleware ==
    IF pc = "global" THEN middlewares[idx] ELSE routes[match.route].middleware[idx]

AfterCurrent == IF pc = "global" THEN AfterGlobal(match, idx) ELSE AfterRoute(match, idx)

Invoked == Append(log, [stage |-> pc, idx |-> idx, fn |-> CurrentMiddleware])

\* executeMiddlewares calls the CORS middleware
CorsStep ==
    /\ pc \in {"global", "route"}
    /\ CurrentMiddleware = CorsMiddleware
    /\ log' = Invoked
    /\ LET r == corsMiddleware(corsOptions, context)
       IN  /\ context' = r.context
           /\ result' = r.response
           /\ IF r.returns
              THEN Return(applyCorsHeaders(r.response, r.context.state.corsHeaders), pc)
              ELSE Proceed(AfterCurrent, r.context)
    /\ UNCHANGED <<setupVars, match, console, otherVars>>

\* executeMiddlewares calls a middleware of the application, which returns
\* undefined
MiddlewareNext ==
    /\ pc \in {"global", "route"}
    /\ CurrentMiddleware # CorsMiddleware
    /\ log' = Invoked
    /\ Proceed(AfterCurrent, context)
    /\ UNCHANGED <<setupVars, context, match, console, result, otherVars>>
\* executeMiddlewares keeping the Response of a middleware and going on
MiddlewareRespondsAndContinues ==
    /\ pc \in {"global", "route"}
    /\ CurrentMiddleware # CorsMiddleware
    /\ log' = Invoked
    /\ result' = Response([data |-> CurrentMiddleware], 403, MiddlewareHeaders)
    /\ response' = applyCorsHeaders(result', context.state.corsHeaders)
    /\ returnedAt' = pc
    /\ pc' = IF AfterCurrent.pc = "notfound" THEN "done" ELSE AfterCurrent.pc
    /\ idx' = AfterCurrent.idx
    /\ UNCHANGED <<setupVars, context, match, console, otherVars>>
\* ... which returns a Response
MiddlewareResponds ==
    /\ pc \in {"global", "route"}
    /\ CurrentMiddleware # CorsMiddleware
    /\ log' = Invoked
    /\ result' = Response([data |-> CurrentMiddleware], 403, MiddlewareHeaders)
    /\ Return(applyCorsHeaders(result', context.state.corsHeaders), pc)
    /\ UNCHANGED <<setupVars, context, match, console, otherVars>>
\* ... which throws, or returns a promise that rejects
MiddlewareThrows(error, requestId) ==
    /\ pc \in {"global", "route"}
    /\ CurrentMiddleware # CorsMiddleware
    /\ log' = Invoked
    /\ Catch(error, requestId)
    /\ UNCHANGED <<setupVars, context, match, result, otherVars>>
HandlerInvoked ==
    Append(log, [stage |-> "handler", idx |-> 0, fn |-> routes[match.route].handler])

\* match.route.handler(context) returns a Response
HandlerResponds(init) ==
    /\ pc = "handler"
    /\ log' = HandlerInvoked
    /\ result' = Response([data |-> "handler"], 200, init)
    /\ Return(applyCorsHeaders(result', context.state.corsHeaders), "handler")
    /\ UNCHANGED <<setupVars, context, match, console, otherVars>>
\* ... throws, or returns a promise that rejects
HandlerThrows(error, requestId) ==
    /\ pc = "handler"
    /\ log' = HandlerInvoked
    /\ Catch(error, requestId)
    /\ UNCHANGED <<setupVars, context, match, result, otherVars>>
----------------------------------------------------------------------------

Next ==
    \/ \E m \in GlobalMiddleware : Use(m)
    \/ \E r \in Registrations : AppRoute(r[1], r[2])
    \/ \E prefix \in GroupPrefixes : GroupBegin(prefix)
    \/ \E m \in RouterMiddleware : RouterUse(m)
    \/ \E method \in GroupMethods, path \in GroupPaths : RouterRoute(method, path)
    \/ GroupEnd
    \/ Listen
    \/ \E method \in RequestMethods, pathname \in Pathnames : Fetch(method, pathname)
    \/ CorsStep
    \/ MiddlewareNext
    \/ MiddlewareResponds
    \/ \E error \in Errors, requestId \in UUIDs : MiddlewareThrows(error, requestId)
    \/ \E init \in HandlerHeaders : HandlerResponds(init)
    \/ \E error \in Errors, requestId \in UUIDs : HandlerThrows(error, requestId)

Spec == Init /\ [][Next]_vars

----------------------------------------------------------------------------
(* Vocabulary of the properties *)

\* the segments of a path: the pieces between its slashes
RECURSIVE Segments(_)
Segments(path) ==
    IF "/" \notin Range(path) THEN <<path>>
    ELSE LET i == Min({k \in 1..Len(path) : path[k] = "/"})
         IN  <<SubSeq(path, 1, i - 1)>> \o Segments(SubSeq(path, i + 1, Len(path)))

\* a segment of the form :name
IsParamSegment(seg) ==
    /\ Len(seg) >= 2
    /\ seg[1] = ":"
    /\ seg[2] \in IdentStart
    /\ \A k \in 3..Len(seg) : seg[k] \in IdentChar

HasParamSegment(template) ==
    \E k \in 1..Len(Segments(template)) : IsParamSegment(Segments(template)[k])

\* pathname has the literal segments of template and a non-empty segment in
\* every :name position
Conforms(template, pathname) ==
    LET t == Segments(template)
        p == Segments(pathname)
    IN  /\ Len(t) = Len(p)
        /\ \A k \in 1..Len(t) :
               IF IsParamSegment(t[k]) THEN p[k] # <<>> ELSE p[k] = t[k]

\* the mapping from every name of template to the segment of pathname in its place
NamedSegments(template, pathname) ==
    LET t == Segments(template)
        p == Segments(pathname)
        at == {k \in 1..Len(t) : IsParamSegment(t[k])}
    IN  [n \in {Tail(t[k]) : k \in at} |-> p[CHOOSE k \in at : Tail(t[k]) = n]]

\* the request in flight has gone through findRoute
Dispatched == pc # "idle"

SameMethod(i) == routes[i].method = context.method

\* route i is a candidate for the request: its path is the pathname or its
\* pattern matches the pathname
Hits(i) ==
    \/ routes[i].path = context.pathname
    \/ StringMatch(context.pathname, routes[i].pattern).ok

----------------------------------------------------------------------------
(* C1: a request whose path has the literal segments of a route with :name *)
(* segments, and a non-empty segment in every :name position, is given to  *)
(* that route with params equal to the mapping from the names to those     *)
(* segments. The statement is taken for a route that is the only one of    *)
(* its method, so that no other route can take the request.                *)
C1_ParamsExtracted ==
    Dispatched =>
        \A i \in 1..Len(routes) :
            ( /\ HasParamSegment(routes[i].path)
              /\ SameMethod(i)
              /\ \A j \in 1..Len(routes) : j # i => ~SameMethod(j)
              /\ Conforms(routes[i].path, context.pathname) )
            => /\ match.found
               /\ match.route = i
               /\ context.params = NamedSegments(routes[i].path, context.pathname)

----------------------------------------------------------------------------
(* C2: when the request is given to a route registered as P + "/*" and its *)
(* pathname is P + "/" + R with R not empty, params["*"] is R.             *)
C2_WildcardCaptured ==
    (Dispatched /\ match.found) =>
        LET path == routes[match.route].path
            prefix == SubSeq(path, 1, Len(path) - 1)
            name == context.pathname
        IN  ( /\ endsWith(path, <<"/", "*">>)
              /\ Len(name) > Len(prefix)
              /\ SubSeq(name, 1, Len(prefix)) = prefix )
            => /\ <<"*">> \in DOMAIN context.params
               /\ context.params[<<"*">>] = SubSeq(name, Len(prefix) + 1, Len(name))

----------------------------------------------------------------------------
(* C3: when a route whose path is the pathname and a wildcard or           *)
(* parameterized route whose pattern matches the pathname are registered   *)
(* for the method of the request, the request is given to a route whose    *)
(* path is the pathname, with empty params, in either order of             *)
(* registration, and no other route's handler is invoked.                  *)
IsLiteralFor(i) == SameMethod(i) /\ routes[i].path = context.pathname

IsDynamicFor(i) ==
    /\ SameMethod(i)
    /\ routes[i].path # context.pathname
    /\ routes[i].isWildcard \/ routes[i].paramNames # <<>>
    /\ StringMatch(context.pathname, routes[i].pattern).ok

C3_LiteralPrecedence ==
    ( /\ Dispatched
      /\ \E i \in 1..Len(routes) : IsLiteralFor(i)
      /\ \E j \in 1..Len(routes) : IsDynamicFor(j) )
    => /\ match.found
       /\ IsLiteralFor(match.route)
       /\ \A i \in 1..Len(routes) : IsLiteralFor(i) => match.route <= i
       /\ match.params = EmptyParams
       /\ context.params = EmptyParams
       /\ \A k \in 1..Len(log) :
              log[k].stage = "handler" => log[k].fn = routes[match.route].handler

\* the wildcard route was registered first and the literal route's handler ran
C3_Witness ==
    /\ pc = "done" /\ returnedAt = "handler"
    /\ Len(routes) = 2
    /\ IsDynamicFor(1)
    /\ IsLiteralFor(2)
    /\ log[Len(log)].fn = routes[2].handler

----------------------------------------------------------------------------
(* C4: when no route of the request's method is a candidate, the answer is *)
(* 405 with the methods of the candidate routes, each once, in the body    *)
(* and in the Allow header, if there is a candidate of another method; and *)
(* 404 with the path and the method in the body otherwise, unless a        *)
(* middleware answered or threw.                                           *)
Candidates == {i \in 1..Len(routes) : Hits(i)}

C4_NotAllowedOrNotFound ==
    LET candidates == Candidates IN
    (pc = "done" /\ \A i \in candidates : ~SameMethod(i)) =>
        IF candidates # {}
        THEN /\ response.status = 405
             /\ DOMAIN response.body = {"error", "allowed"}
             /\ response.body.error = "Method Not Allowed"
             /\ Range(response.body.allowed) = {routes[i].method : i \in candidates}
             /\ Len(response.body.allowed) = Cardinality(Range(response.body.allowed))
             /\ response.headers["allow"] = Join(response.body.allowed)
        ELSE returnedAt \notin {"global", "route", "catch"} =>
                /\ response.status = 404
                /\ response.body = [error |-> "Not Found", path |-> context.pathname,
                                    method |-> context.method]

\* two candidate routes of one method, asked for with another method
C4_Witness ==
    /\ pc = "done"
    /\ Cardinality(Candidates) = 2
    /\ \A i \in Candidates : ~SameMethod(i)
    /\ response.status = 405
    /\ Len(response.body.allowed) = 1

----------------------------------------------------------------------------
(* C5: when a middleware returns a response, the functions invoked for the *)
(* request are the middleware of the pipeline (the global list, then the   *)
(* route's list) up to that middleware, each once and in order; fetch has  *)
(* returned, so nothing else is invoked; and the response of fetch is the  *)
(* middleware's response with the stored CORS headers set on it.           *)
PipelineEntry(k) ==
    IF k <= Len(middlewares)
    THEN [stage |-> "global", idx |-> k, fn |-> middlewares[k]]
    ELSE [stage |-> "route", idx |-> k - Len(middlewares),
          fn |-> routes[match.route].middleware[k - Len(middlewares)]]

StoredCors == IF context.state.corsHeaders = <<>> THEN <<>> ELSE context.state.corsHeaders[1]

StoredNames == {HeaderName(StoredCors[k][1]) : k \in 1..Len(StoredCors)}

StoredValue(name) ==
    StoredCors[CHOOSE k \in 1..Len(StoredCors) : HeaderName(StoredCors[k][1]) = name][2]

\* response is result with the stored CORS headers set on it
PostProcessed ==
    /\ response.status = result.status
    /\ response.body = result.body
    /\ DOMAIN response.headers = DOMAIN result.headers \cup StoredNames
    /\ \A h \in DOMAIN response.headers :
           response.headers[h] = IF h \in StoredNames THEN StoredValue(h)
                                 ELSE result.headers[h]

C5_ShortCircuit ==
    returnedAt \in {"global", "route"} =>
        /\ pc = "done"
        /\ Len(log) >= 1
        /\ \A k \in 1..Len(log) : log[k] = PipelineEntry(k)
        /\ log[Len(log)].stage = returnedAt
        /\ result.status # 0
        /\ PostProcessed

\* global middleware [A, B] and a route with middleware [C]: the application's
\* B answers, so A and B have run and C and the handler have not
C5_Witness ==
    /\ returnedAt = "global"
    /\ Len(middlewares) = 2
    /\ Len(log) = 2
    /\ log[2].fn # CorsMiddleware
    /\ match.found
    /\ routes[match.route].middleware # <<>>

----------------------------------------------------------------------------
(* C6: the 500 response of the catch block is made of the fixed error text *)
(* and a generated request id only: whatever was thrown, the body without  *)
(* its requestId is the same, and the thrown message is no part of the     *)
(* body or of the headers.                                                 *)
Thrown == console[2]

C6_ErrorOpacity ==
    returnedAt = "catch" =>
        /\ response.status = 500
        /\ DOMAIN response.body = {"error", "requestId"}
        /\ response.body.error = "Internal Server Error"
        /\ response.body.requestId \in UUIDs
        /\ Thrown \in Errors
        /\ \A f \in DOMAIN response.body : response.body[f] # Thrown
        /\ \A h \in DOMAIN response.headers : response.headers[h] # Thrown

\* the handler threw the error that carries a secret
C6_Witness ==
    /\ returnedAt = "catch"
    /\ Thrown = "db password: secret123"
    /\ log[Len(log)].stage = "handler"

----------------------------------------------------------------------------
(* C7: whenever CORS headers are stored in the state of a request, the     *)
(* response returned for it carries them, whether it is the response of a  *)
(* middleware, of the handler, or the 404 or 405 of the dispatcher.        *)
CarriesStoredCors ==
    \A h \in StoredNames :
        h \in DOMAIN response.headers /\ response.headers[h] = StoredValue(h)

C7_CorsOnEveryResponse ==
    ( /\ pc = "done"
      /\ returnedAt \in {"global", "route", "handler", "404", "405"}
      /\ StoredCors # <<>> )
    => CarriesStoredCors

----------------------------------------------------------------------------
(* C8: with the CORS middleware installed as the first global middleware,  *)
(* every OPTIONS request is answered 204 with an empty body and the        *)
(* Access-Control-Allow-Origin, -Methods and -Headers headers, and the     *)
(* -Credentials header when credentials are configured.                    *)
C8_PreflightAnswered ==
    ( /\ pc = "done"
      /\ context.method = "OPTIONS"
      /\ middlewares # <<>>
      /\ middlewares[1] = CorsMiddleware )
    => /\ response.status = 204
       /\ response.body = NullBody
       /\ {"access-control-allow-origin", "access-control-allow-methods",
           "access-control-allow-headers"} \subseteq DOMAIN response.headers
       /\ corsOptions.credentials =>
              "access-control-allow-credentials" \in DOMAIN response.headers

----------------------------------------------------------------------------
(* C9: when CORS headers are stored and the handler has answered, the      *)
(* final response has the stored value under every stored name, also where *)
(* the handler's response had a header of that name, and every other       *)
(* header of the handler's response unchanged.                             *)
C9_CorsWins ==
    (returnedAt = "handler" /\ StoredCors # <<>>) =>
        /\ CarriesStoredCors
        /\ \A h \in DOMAIN result.headers :
               /\ h \in DOMAIN response.headers
               /\ h \notin StoredNames => response.headers[h] = result.headers[h]

\* the handler set Access-Control-Allow-Origin itself and the configured
\* origin replaced it
C9_Witness ==
    /\ returnedAt = "handler"
    /\ StoredCors # <<>>
    /\ "access-control-allow-origin" \in DOMAIN result.headers
    /\ result.headers["access-control-allow-origin"] = "https://evil.example"
    /\ response.headers["access-control-allow-origin"] = "https://good.example"
    /\ response.headers["x-custom"] = "1"

----------------------------------------------------------------------------
(* C10, as stated: the route selected is the earliest registered of the    *)
(* routes of the request's method whose path is the pathname or whose      *)
(* pattern matches it.                                                     *)
MethodCandidates == {i \in Candidates : SameMethod(i)}

C10_FirstMatchWins ==
    LET candidates == MethodCandidates IN
    (Dispatched /\ candidates # {}) =>
        /\ match.found
        /\ match.route = Min(candidates)

(* C10, amended: a route is selected exactly if there is a candidate of    *)
(* the request's method; it is the earliest registered route of that       *)
(* method whose path is the pathname, if there is one, and otherwise the   *)
(* earliest registered route of that method whose pattern matches.         *)
C10_ExactThenFirstPattern ==
    LET candidates == MethodCandidates IN
    Dispatched =>
        /\ match.found <=> candidates # {}
        /\ match.found =>
              /\ match.route \in candidates
              /\ IF \E i \in 1..Len(routes) : IsLiteralFor(i)
                 THEN /\ IsLiteralFor(match.route)
                      /\ \A i \in 1..Len(routes) : IsLiteralFor(i) => match.route <= i
                 ELSE \A i \in candidates : match.route <= i

\* two routes match by pattern only, and the first of them is selected
C10_Witness ==
    /\ Dispatched
    /\ Cardinality(MethodCandidates) = 2
    /\ \A i \in 1..Len(routes) : ~IsLiteralFor(i)
    /\ match.found
    /\ match.route = 1


----------------------------------------------------------------------------
(* Concurrent requests: fetch is an async function, and the worker runs    *)
(* the calls of fetch of several requests interleaved, switching at every  *)
(* await. A call of fetch is suspended at `await middleware(context)` and  *)
(* `await match.route.handler(context)` from the call of the function      *)
(* until its result has settled.                                           *)

MaxRequests == 2

\* the configuration objects given to createApp: without and with the
\* onError hook of the README
AppOptionSets == { [onError |-> FALSE], [onError |-> TRUE] }

\* the hook of the README: (error, request) => errorResponse("Internal
\* server error", 500)
onError(error, request) ==
    Response([error |-> "Internal server error"], 500,
             << <<"Content-Type", "application/json">> >>)

\* the requests: method, pathname and the entries of url.searchParams
Urls == { [method |-> "GET", pathname |-> <<"/", "s", "/", "a">>,
           search |-> << <<"q", "1">> >>],
          [method |-> "GET", pathname |-> <<"/", "x">>,
           search |-> << <<"q", "2">>, <<"q", "3">> >>],
          [method |-> "POST", pathname |-> <<"/", "s", "/", "a">>, search |-> <<>>] }

\* for (const [key, value] of url.searchParams) query[key] = value: the last
\* value of every key
parseQueryString(search) ==
    [key \in {search[i][1] : i \in 1..Len(search)} |->
        search[Max({i \in 1..Len(search) : search[i][1] = key})][2]]

\* one context object kept by createApp and handed to every request
AllocateShared(heap) == 1

\* the object literal `const context = {..., state: {}, ...}` makes a new
\* object: its place among the objects allocated so far
Allocate(heap) == Len(heap) + 1

\* the heap with object obj at place i
Put(heap, i, obj) ==
    [k \in 1..Max({Len(heap), i}) |-> IF k = i THEN obj ELSE heap[k]]

\* hook holds the calls of options.onError made for the request: the catch
\* block of fetch does not read options, so it makes none
IdleRequest ==
    [pc |-> "idle", url |-> <<>>, stage |-> "none", idx |-> 0, ctx |-> 0,
     match |-> NoRoute, events |-> <<>>, console |-> <<>>, hook |-> <<>>,
     response |-> NoResponse, returnedAt |-> "none"]

\* the application of the README: app.use(corsMiddleware(...)), app.use(A),
\* app.group("/s", (router) => router.use(C).get("/a", handler))
RequestsInit ==
    /\ corsOptions = [origin |-> "https://good.example", credentials |-> TRUE]
    /\ middlewares = <<CorsMiddleware, "A">>
    /\ routes = <<Route("GET", <<"/", "s">> \o <<"/", "a">>, 1, <<"C">>)>>
    /\ router = NoRouter
    /\ phase = "serving"
    /\ pc = "idle"
    /\ context = NoContext
    /\ match = NoRoute
    /\ idx = 0
    /\ log = <<>>
    /\ console = <<>>
    /\ result = NoResponse
    /\ response = NoResponse
    /\ returnedAt = "none"
    /\ appOptions \in AppOptionSets
    /\ requests = [r \in 1..MaxRequests |-> IdleRequest]
    /\ contexts = <<>>
    /\ LimiterAtRest /\ SocketsAtRest /\ PluginsAtRest /\ LibrariesAtRest

\* fetch of this request resolves with resp, produced by return statement `at`
Finished(req, resp, at) ==
    [req EXCEPT !.pc = "done", !.response = resp, !.returnedAt = at]

\* fetch of this request goes on at position pos of the pipeline
Enter(req, pos) ==
    IF pos.pc = "notfound"
    THEN Finished(req, NotFoundResponse(req.url.pathname, req.url.method), "404")
    ELSE [req EXCEPT !.pc = "ready", !.stage = pos.pc, !.idx = pos.idx]

\* the function fetch calls at the position of the request
FunctionAt(req) ==
    CASE req.stage = "global" -> middlewares[req.idx]
      [] req.stage = "route" -> routes[req.match.route].middleware[req.idx]
      [] OTHER -> routes[req.match.route].handler

\* the function at the position of the request is the CORS middleware
IsCors(req) ==
    IF req.stage = "handler" THEN FALSE ELSE FunctionAt(req) = CorsMiddleware

\* the position after the function at the position of the request
NextPosition(req) ==
    IF req.stage = "global" THEN AfterGlobal(req.match, req.idx)
    ELSE AfterRoute(req.match, req.idx)

Occurrence(req, ev, ctx) ==
    [ev |-> ev, stage |-> req.stage, idx |-> req.idx, fn |-> FunctionAt(req),
     seen |-> ctx]

\* `await f(context)` without the await: the loop goes on while the result
\* of f is pending
AwaitNothing(req) ==
    IF req.stage = "handler" \/ NextPosition(req).pc = "notfound"
    THEN [req EXCEPT !.pc = "awaiting"]
    ELSE [req EXCEPT !.pc = "ready", !.stage = NextPosition(req).pc,
                     !.idx = NextPosition(req).idx]

\* `await f(context)`: fetch is suspended until the result of f has settled
Await(req) == [req EXCEPT !.pc = "awaiting"]

\* fetch from its start to the first await
Dispatch(r, url) ==
    /\ requests[r].pc = "idle"
    /\ LET m == findRoute(routes, url.method, url.pathname)
           availableMethods == findPathWithoutMethod(routes, url.pathname)
           c == Allocate(contexts)
           ctx == [method |-> url.method, pathname |-> url.pathname,
                   query |-> parseQueryString(url.search), params |-> m.params,
                   state |-> [corsHeaders |-> <<>>, user |-> 0]]
           req == [requests[r] EXCEPT !.url = url, !.match = m]
       IN  IF ~m.found /\ Len(availableMethods) > 0
           THEN /\ requests' = [requests EXCEPT ![r] =
                       Finished(req, NotAllowedResponse(availableMethods), "405")]
                /\ UNCHANGED contexts
           ELSE /\ contexts' = Put(contexts, c, ctx)
                /\ requests' = [requests EXCEPT ![r] =
                       Enter([req EXCEPT !.ctx = c], AfterGlobal(m, 0))]
    /\ UNCHANGED <<appVars, libraryVars, appOptions, limiterVars, socketVars, pluginVars>>

\* fetch calls the function at its position, which runs up to its own first
\* suspension: the CORS middleware stores its headers, a middleware of the
\* application stores the user it found for the request, the handler reads
Call(r) ==
    /\ requests[r].pc = "ready"
    /\ LET req == requests[r]
           ctx == contexts[req.ctx]
       IN  /\ contexts' =
                  IF req.stage = "handler" THEN contexts
                  ELSE IF IsCors(req)
                  THEN [contexts EXCEPT ![req.ctx] = corsMiddleware(corsOptions, ctx).context]
                  ELSE [contexts EXCEPT ![req.ctx].state.user = r]
           /\ requests' = [requests EXCEPT ![r] =
                  Await([req EXCEPT !.events = Append(@, Occurrence(req, "call", ctx))])]
    /\ UNCHANGED <<appVars, libraryVars, appOptions, limiterVars, socketVars, pluginVars>>

\* the request with the settling of the awaited result recorded
Settled(r) ==
    [requests[r] EXCEPT
        !.events = Append(@, Occurrence(requests[r], "settle", contexts[requests[r].ctx]))]

\* the CORS middleware at the position of the request returns a Response
CorsResponds(req) ==
    IsCors(req) /\ corsMiddleware(corsOptions, contexts[req.ctx]).returns

\* the awaited middleware returned undefined
SettleNext(r) ==
    /\ requests[r].pc = "awaiting"
    /\ requests[r].stage \in {"global", "route"}
    /\ ~CorsResponds(requests[r])
    /\ requests' = [requests EXCEPT ![r] = Enter(Settled(r), NextPosition(requests[r]))]
    /\ UNCHANGED <<appVars, libraryVars, appOptions, contexts, limiterVars, socketVars, pluginVars>>

\* the awaited function returned a Response
SettleResponds(r) ==
    /\ requests[r].pc = "awaiting"
    /\ IsCors(requests[r]) => CorsResponds(requests[r])
    /\ LET req == requests[r]
           ctx == contexts[req.ctx]
           res == IF req.stage = "handler" THEN Response([data |-> "handler"], 200, <<>>)
                  ELSE IF CorsResponds(req)
                  THEN corsMiddleware(corsOptions, ctx).response
                  ELSE Response([data |-> FunctionAt(req)], 403, MiddlewareHeaders)
       IN  requests' = [requests EXCEPT ![r] =
               Finished(Settled(r), applyCorsHeaders(res, ctx.state.corsHeaders), req.stage)]
    /\ UNCHANGED <<appVars, libraryVars, appOptions, contexts, limiterVars, socketVars, pluginVars>>

\* the awaited function threw, or its promise rejected: the catch block
SettleThrows(r, error, requestId) ==
    /\ requests[r].pc = "awaiting"
    /\ ~IsCors(requests[r])
    /\ requests' = [requests EXCEPT ![r] =
           Finished([Settled(r) EXCEPT !.console = <<"Handler error:", error>>],
                    ErrorResponse(error, requestId), "catch")]
    /\ UNCHANGED <<appVars, libraryVars, appOptions, contexts, limiterVars, socketVars, pluginVars>>

NextRequests ==
    \/ \E r \in 1..MaxRequests, url \in Urls : Dispatch(r, url)
    \/ \E r \in 1..MaxRequests : Call(r)
    \/ \E r \in 1..MaxRequests : SettleNext(r)
    \/ \E r \in 1..MaxRequests : SettleResponds(r)
    \/ \E r \in 1..MaxRequests : SettleThrows(r, "boom", "uuid-1")

SpecRequests == RequestsInit /\ [][NextRequests]_vars

----------------------------------------------------------------------------
(* C11: within one request the functions are called in pipeline order (the *)
(* global middleware in the order of their use calls, then the middleware  *)
(* of the matched route in list order, then the handler), each call is     *)
(* followed by the settling of its result before the next call, and at no  *)
(* time are two of the functions of one request in progress.               *)

\* the pipeline of a request with route match m
Pipeline(m) ==
    [k \in 1..Len(middlewares) |->
        [stage |-> "global", idx |-> k, fn |-> middlewares[k]]]
    \o (IF m.found
        THEN [k \in 1..Len(routes[m.route].middleware) |->
                 [stage |-> "route", idx |-> k, fn |-> routes[m.route].middleware[k]]]
             \o <<[stage |-> "handler", idx |-> 0, fn |-> routes[m.route].handler]>>
        ELSE <<>>)

\* the functions of a request called and not yet settled, as positions of events
InProgress(events) ==
    {k \in 1..Len(events) :
        /\ events[k].ev = "call"
        /\ \A j \in (k + 1)..Len(events) :
               ~(events[j].ev = "settle" /\ events[j].stage = events[k].stage
                                          /\ events[j].idx = events[k].idx)}

Calls(events) == SelectSeq(events, LAMBDA e : e.ev = "call")

----------------------------------------------------------------------------
(* C12: a middleware added with .use inside a group callback is on the     *)
(* list of exactly the routes registered through the facade after that     *)
(* call: every step leaves the lists of the routes already registered as   *)
(* they are, a route registered through the facade gets the middleware     *)
(* added to the facade so far, a route registered on the application gets  *)
(* none, and the middleware run for a request at the route stage are those *)
(* of the list of its route.                                               *)
C12_NoRetroactiveUse ==
    [][ /\ Len(routes') >= Len(routes)
        /\ \A i \in 1..Len(routes) : routes'[i].middleware = routes[i].middleware
        /\ Len(routes') > Len(routes) =>
               routes'[Len(routes')].middleware =
                   (IF router.open THEN router.routerMiddleware ELSE <<>>)
        /\ \A k \in 1..Len(log') :
               log'[k].stage = "route" =>
                   log'[k].fn = routes'[match'.route].middleware[log'[k].idx]
      ]_vars

\* two routes of one group, the first registered before router.use(C) and the
\* second after it: the request went to the first and C was not run
C12_Witness ==
    /\ Len(routes) = 2
    /\ routes[1].middleware = <<>>
    /\ routes[2].middleware = <<"C">>
    /\ routes[1].path = routes[2].path
    /\ returnedAt = "handler"
    /\ match.route = 1
    /\ \A k \in 1..Len(log) : log[k].stage # "route"


----------------------------------------------------------------------------
(* C13: under every interleaving of the requests, no two requests have the *)
(* same context object, and whatever a middleware or handler of a request  *)
(* finds in its context when it is called and when it resumes is of that   *)
(* request: the method, pathname, query and params of its own URL, and in  *)
(* the state only values written while handling that request.              *)
C13_OwnContext ==
    \A r \in DOMAIN requests :
        LET req == requests[r] IN
        /\ \A o \in DOMAIN requests :
               (o # r /\ req.ctx # 0) => requests[o].ctx # req.ctx
        /\ \A k \in 1..Len(req.events) :
               LET seen == req.events[k].seen IN
               /\ seen.method = req.url.method
               /\ seen.pathname = req.url.pathname
               /\ seen.query = parseQueryString(req.url.search)
               /\ seen.params = req.match.params
               /\ seen.state.user \in {0, r}

\* two requests with different query strings are suspended, each after the
\* application's middleware has written to its state: one in its handler, the
\* other, for a path without a route, in that middleware
C13_Witness ==
    \E r, o \in DOMAIN requests :
        /\ r # o
        /\ requests[r].pc = "awaiting" /\ requests[r].stage = "handler"
        /\ requests[o].pc = "awaiting" /\ requests[o].stage = "global"
        /\ requests[r].url.search # requests[o].url.search
        /\ contexts[requests[r].ctx].state.user = r
        /\ contexts[requests[o].ctx].state.user = o
        /\ contexts[requests[r].ctx].query = [q \in {"q"} |-> "1"]
        /\ contexts[requests[o].ctx].query = [q \in {"q"} |-> "3"]


----------------------------------------------------------------------------
(* C14: fetch never rejects; when a global middleware, a middleware of the *)
(* route or the handler has thrown (or its promise has rejected), fetch    *)
(* has resolved with a response of status 500 whose body is the JSON text  *)
(* of an object with an error field.                                       *)
C14_ThrowBecomes500 ==
    /\ pc = "done" => (returnedAt # "rejected" /\ response.status \in 100..599)
    /\ console # <<>> =>
           /\ pc = "done"
           /\ returnedAt = "catch"
           /\ response.status = 500
           /\ "error" \in DOMAIN response.body
           /\ response.headers["content-type"] = "application/json"

\* a middleware of the route's own list threw after both global middleware ran
C14_Witness ==
    /\ console # <<>>
    /\ Len(log) = 3
    /\ log[3].stage = "route"
    /\ response.status = 500


----------------------------------------------------------------------------
(* C15: when the configuration object given to createApp has an onError    *)
(* hook and a middleware or the handler of a request has thrown, the hook  *)
(* has been called with the error and the request, and the response of     *)
(* fetch is the result of the hook.                                        *)
C15_ErrorHookUsed ==
    \A r \in DOMAIN requests :
        (appOptions.onError /\ requests[r].returnedAt = "catch") =>
            LET error == requests[r].console[2] IN
            /\ requests[r].hook = << <<error, requests[r].url>> >>
            /\ requests[r].response = onError(error, requests[r].url)


----------------------------------------------------------------------------
(* The rate limiter (src/src/security/rate-limiter): calls of consume for  *)
(* one key inside one window, interleaved at their awaits. Date.now() does *)
(* not pass resetAt and nothing resets the key, so the store returns null  *)
(* only while the key was never set, and the branch of consume for an      *)
(* increment that returns null is not taken.                               *)

MaxCallers == 3

\* createRateLimiter({store, maxRequests}) with the store of kv-store.ts or
\* of memory-store.ts
LimiterConfigs == [store : {"kv", "memory"}, maxRequests : {1, 2}]

IdleCaller == [pc |-> "idle", overlap |-> FALSE, current |-> 0, count |-> 0,
               outcome |-> "none", remaining |-> 0]

LimiterInit ==
    /\ limiter \in LimiterConfigs
    /\ kv = <<>>
    /\ callers = [c \in 1..MaxCallers |-> IdleCaller]
    /\ AppAtRest /\ RequestsAtRest /\ SocketsAtRest /\ PluginsAtRest /\ LibrariesAtRest

\* data.count < maxRequests
WithinBelow(count) == count < limiter.maxRequests

\* const allowed = data.count <= maxRequests
Within(count) == count <= limiter.maxRequests

\* the end of consume once data.count is known: RateLimitError is thrown, or
\* the result {allowed: true, remaining, ...} is returned
Decide(caller, count) ==
    [caller EXCEPT !.pc = "done",
                   !.count = count,
                   !.outcome = IF Within(count) THEN "allowed" ELSE "throws",
                   !.remaining = Max({0, limiter.maxRequests - count})]

\* consume up to its first await; the calls are numbered in the order in
\* which they are made, and every call records whether it ran while another
\* call was in progress
Consume(c) ==
    /\ callers[c].pc = "idle"
    /\ \A b \in 1..(c - 1) : callers[b].pc # "idle"
    /\ LET busy == {b \in DOMAIN callers : callers[b].pc \notin {"idle", "done"}}
       IN  callers' = [b \in DOMAIN callers |->
               IF b = c THEN [callers[b] EXCEPT !.pc = "get", !.overlap = busy # {}]
               ELSE IF b \in busy THEN [callers[b] EXCEPT !.overlap = TRUE]
               ELSE callers[b]]
    /\ UNCHANGED <<limiter, kv, appVars, libraryVars, requestsVars, socketVars, pluginVars>>

\* getRateLimitData: await store.get(key)
StoreGet(c) ==
    /\ callers[c].pc = "get"
    /\ callers' = [callers EXCEPT ![c].pc = IF kv = <<>> THEN "create" ELSE "increment"]
    /\ UNCHANGED <<limiter, kv, appVars, libraryVars, requestsVars, socketVars, pluginVars>>

\* createNewWindow: await store.set(key, {count: 0, ...}, windowSeconds)
CreateNewWindow(c) ==
    /\ callers[c].pc = "create"
    /\ kv' = [count |-> 0]
    /\ callers' = [callers EXCEPT ![c].pc = "increment"]
    /\ UNCHANGED <<limiter, appVars, libraryVars, requestsVars, socketVars, pluginVars>>

\* store.increment of the memory store: no await between reading and writing
Increment(c) ==
    /\ callers[c].pc = "increment"
    /\ limiter.store = "memory"
    /\ kv' = [count |-> kv.count + 1]
    /\ callers' = [callers EXCEPT ![c] = Decide(@, kv.count + 1)]
    /\ UNCHANGED <<limiter, appVars, libraryVars, requestsVars, socketVars, pluginVars>>

\* store.increment of the KV store: const current = await kv.get(fullKey, "json")
KvIncrementGet(c) ==
    /\ callers[c].pc = "increment"
    /\ limiter.store = "kv"
    /\ callers' = [callers EXCEPT ![c].pc = "put", ![c].current = kv.count]
    /\ UNCHANGED <<limiter, kv, appVars, libraryVars, requestsVars, socketVars, pluginVars>>

\* ... current.count++; await kv.put(fullKey, JSON.stringify(current), ...)
KvIncrementPut(c) ==
    /\ callers[c].pc = "put"
    /\ kv' = [count |-> callers[c].current + 1]
    /\ callers' = [callers EXCEPT ![c] = Decide(@, callers[c].current + 1)]
    /\ UNCHANGED <<limiter, appVars, libraryVars, requestsVars, socketVars, pluginVars>>

NextLimiter ==
    \/ \E c \in 1..MaxCallers : Consume(c)
    \/ \E c \in 1..MaxCallers : StoreGet(c)
    \/ \E c \in 1..MaxCallers : CreateNewWindow(c)
    \/ \E c \in 1..MaxCallers : Increment(c)
    \/ \E c \in 1..MaxCallers : KvIncrementGet(c)
    \/ \E c \in 1..MaxCallers : KvIncrementPut(c)

SpecLimiter == LimiterInit /\ [][NextLimiter]_vars

----------------------------------------------------------------------------
(* C16: with the KV store, under every interleaving of the calls of        *)
(* consume for one key in one window, at most maxRequests of the calls are *)
(* allowed.                                                                *)
Allowed == {c \in DOMAIN callers : callers[c].outcome = "allowed"}

C16_AtMostMaxAllowed ==
    limiter.store = "kv" => Cardinality(Allowed) <= limiter.maxRequests

----------------------------------------------------------------------------
(* C17: when the calls of consume for one key in one window are made one   *)
(* after the other, the first maxRequests of them return allowed = true    *)
(* and every later one throws RateLimitError; and no call, sequential or   *)
(* not, returns a result with a count above maxRequests.                   *)
Sequential == \A c \in DOMAIN callers : ~callers[c].overlap

C17_SequentialLimit ==
    /\ \A c \in DOMAIN callers :
           callers[c].outcome = "allowed" => callers[c].count <= limiter.maxRequests
    /\ Sequential =>
           \A c \in DOMAIN callers :
               callers[c].pc = "done" =>
                   /\ callers[c].count = c
                   /\ callers[c].outcome =
                          (IF c <= limiter.maxRequests THEN "allowed" ELSE "throws")
                   /\ callers[c].outcome = "allowed" =>
                          callers[c].remaining = limiter.maxRequests - c

\* with the memory store and maxRequests = 2, three calls made one after the
\* other: two allowed, the third thrown
C17_Witness ==
    /\ Sequential
    /\ limiter = [store |-> "memory", maxRequests |-> 2]
    /\ \A c \in DOMAIN callers : callers[c].pc = "done"
    /\ callers[1].outcome = "allowed"
    /\ callers[2].outcome = "allowed"
    /\ callers[3].outcome = "throws"


----------------------------------------------------------------------------
(* The WebSocket handler (src/src/websocket/index.ts): the upgrade         *)
(* requests given to one handler of createWebSocketHandler, and the close  *)
(* and error events of the server sockets it accepted. Every upgrade       *)
(* request has a record in `sockets`; the server socket of an accepted     *)
(* request is named by the position of the record.                         *)

MaxUpgrades == 3

\* the options objects: maxConnections and which callbacks are given
WsOptionSets ==
    [maxConnections : {1, 2}, onOpen : BOOLEAN, onClose : BOOLEAN, onError : BOOLEAN]

SocketsInit ==
    /\ wsOptions \in WsOptionSets
    /\ connections = {}
    /\ sockets = <<>>
    /\ AppAtRest /\ RequestsAtRest /\ LimiterAtRest /\ PluginsAtRest /\ LibrariesAtRest

\* connections.size > maxConnections
OverLimit == Cardinality(connections) > wsOptions.maxConnections

\* if (connections.size >= maxConnections)
AtLimit == Cardinality(connections) >= wsOptions.maxConnections

\* fetch of the handler up to its first await (await options.onOpen) or, with
\* no onOpen, to its end; size is connections.size when the request arrived
Upgrade(upgradeHeader) ==
    /\ Len(sockets) < MaxUpgrades
    /\ LET accepts == upgradeHeader = "websocket" /\ ~AtLimit
           status == IF upgradeHeader # "websocket" THEN 426
                     ELSE IF AtLimit THEN 503
                     ELSE IF wsOptions.onOpen THEN 0
                     ELSE 101
       IN  /\ sockets' = Append(sockets,
                  [upgrade |-> upgradeHeader, size |-> Cardinality(connections),
                   accepted |-> accepts, status |-> status,
                   closed |-> FALSE, errored |-> FALSE])
           /\ connections' = IF accepts THEN connections \cup {Len(sockets) + 1}
                             ELSE connections
    /\ UNCHANGED <<wsOptions, appVars, libraryVars, requestsVars, limiterVars, pluginVars>>

\* await options.onOpen(server, context) returns: the 101 response
OpenReturns(u) ==
    /\ u \in DOMAIN sockets
    /\ sockets[u].accepted /\ sockets[u].status = 0
    /\ sockets' = [sockets EXCEPT ![u].status = 101]
    /\ UNCHANGED <<wsOptions, connections, appVars, libraryVars, requestsVars, limiterVars, pluginVars>>

\* ... throws: server.close(1011, ...) and the 500 response
OpenThrows(u) ==
    /\ u \in DOMAIN sockets
    /\ sockets[u].accepted /\ sockets[u].status = 0
    /\ sockets' = [sockets EXCEPT ![u].status = 500]
    /\ UNCHANGED <<wsOptions, connections, appVars, libraryVars, requestsVars, limiterVars, pluginVars>>

\* the "close" listener of server socket u, registered for every socket
CloseEvent(u) ==
    /\ u \in DOMAIN sockets
    /\ sockets[u].accepted /\ ~sockets[u].closed
    /\ connections' = connections \ {u}
    /\ sockets' = [sockets EXCEPT ![u].closed = TRUE]
    /\ UNCHANGED <<wsOptions, appVars, libraryVars, requestsVars, limiterVars, pluginVars>>

\* an "error" event of server socket u: its listener, which deletes the
\* socket, is registered only if (options.onError)
ErrorEvent(u) ==
    /\ u \in DOMAIN sockets
    /\ sockets[u].accepted /\ ~sockets[u].closed /\ ~sockets[u].errored
    /\ connections' = IF wsOptions.onError THEN connections \ {u} ELSE connections
    /\ sockets' = [sockets EXCEPT ![u].errored = TRUE]
    /\ UNCHANGED <<wsOptions, appVars, libraryVars, requestsVars, limiterVars, pluginVars>>

NextWebSocket ==
    \/ \E upgradeHeader \in {"websocket", "none"} : Upgrade(upgradeHeader)
    \/ \E u \in 1..MaxUpgrades : OpenReturns(u)
    \/ \E u \in 1..MaxUpgrades : OpenThrows(u)
    \/ \E u \in 1..MaxUpgrades : CloseEvent(u)
    \/ \E u \in 1..MaxUpgrades : ErrorEvent(u)

SpecWebSocket == SocketsInit /\ [][NextWebSocket]_vars

----------------------------------------------------------------------------
(* C18: the number of tracked connections of a handler never exceeds       *)
(* maxConnections, whatever the order of upgrade requests and close        *)
(* events, and an upgrade request that arrives while that number equals    *)
(* maxConnections is answered 503 and no socket is accepted for it.        *)
C18_ConnectionLimit ==
    /\ Cardinality(connections) <= wsOptions.maxConnections
    /\ \A u \in DOMAIN sockets :
           (sockets[u].upgrade = "websocket" /\ sockets[u].size = wsOptions.maxConnections)
           => (sockets[u].status = 503 /\ ~sockets[u].accepted /\ u \notin connections)

\* with maxConnections = 1: the first connection closed and was replaced by
\* the second, and the third upgrade request found the handler full
C18_Witness ==
    /\ wsOptions.maxConnections = 1
    /\ Len(sockets) = 3
    /\ sockets[1].closed
    /\ connections = {2}
    /\ sockets[3].upgrade = "websocket"
    /\ sockets[3].status = 503

----------------------------------------------------------------------------
(* C19: once an accepted socket has had a close event or an error event,   *)
(* it is not in the set of tracked connections, whichever callbacks the    *)
(* options hold.                                                           *)
C19_CleanupOnCloseOrError ==
    \A u \in DOMAIN sockets :
        (sockets[u].accepted /\ (sockets[u].closed \/ sockets[u].errored))
        => u \notin connections


----------------------------------------------------------------------------
(* The plugin registry (PluginRegistry of src/src/plugins/types.ts):       *)
(* register, then one call of installAll, suspended at every               *)
(* `await entry.plugin.install(context)`.                                  *)

MaxPlugins == 3

\* the plugins of the application: name and dependencies
PluginSet == { [name |-> "a", dependencies |-> {}],
               [name |-> "b", dependencies |-> {"a"}],
               [name |-> "c", dependencies |-> {"b"}] }

\* the options given to register; {enabled: true, priority: 100} are the defaults
PluginOptionSets == [enabled : BOOLEAN, priority : {50, 100}]

\* installation: the call of installAll (its sorted list as positions in
\* `plugins`, its place in the loop, the install functions called so far)
\* and the registry's installedOrder
PluginsInit ==
    /\ plugins = <<>>
    /\ installation = [pc |-> "idle", sorted |-> <<>>, pos |-> 0, calls |-> <<>>,
                       installedOrder |-> <<>>]
    /\ AppAtRest /\ RequestsAtRest /\ LimiterAtRest /\ SocketsAtRest /\ LibrariesAtRest

\* the comparator given to sort in getSortedPlugins
compare(a, b) ==
    LET priorityDiff == a.options.priority - b.options.priority
    IN  IF priorityDiff # 0 THEN priorityDiff
        ELSE IF b.plugin.name \in a.plugin.dependencies THEN 1
        ELSE IF a.plugin.name \in b.plugin.dependencies THEN -1
        ELSE 0

\* getSortedPlugins: Array.prototype.sort is stable and, when the comparator
\* is a consistent one (a total preorder), returns the one ordering it
\* defines; when it is not, the resulting order is implementation-defined
getSortedPlugins(entries) ==
    LET n == Len(entries)
        le(i, j) == compare(entries[i], entries[j]) <= 0
        consistent ==
            /\ \A i, j \in 1..n :
                   (compare(entries[i], entries[j]) < 0) <=> (compare(entries[j], entries[i]) > 0)
            /\ \A i, j, k \in 1..n : (le(i, j) /\ le(j, k)) => le(i, k)
        orders == {p \in [1..n -> 1..n] : \A i, j \in 1..n : i # j => p[i] # p[j]}
        sorted(p) == \A i, j \in 1..n :
                         i < j => \/ compare(entries[p[i]], entries[p[j]]) < 0
                                  \/ /\ compare(entries[p[i]], entries[p[j]]) = 0
                                     /\ p[i] < p[j]
    IN  IF consistent THEN {p \in orders : sorted(p)} ELSE orders

\* the loop of installAll from place `from` of the sorted list to its next
\* await: entries that are disabled or installed are passed over
Advance(inst, entries, from) ==
    LET todo == {i \in from..Len(inst.sorted) :
                    /\ entries[inst.sorted[i]].options.enabled
                    /\ ~entries[inst.sorted[i]].installed}
    IN  IF todo = {}
        THEN [inst EXCEPT !.pc = "done", !.pos = Len(inst.sorted) + 1]
        ELSE [inst EXCEPT !.pc = "awaiting", !.pos = Min(todo),
                          !.calls = Append(@, entries[inst.sorted[Min(todo)]].plugin.name)]

\* register(plugin, options) when it does not throw: the name is new and
\* every dependency is registered
Register(plugin, opts) ==
    /\ installation.pc = "idle"
    /\ Len(plugins) < MaxPlugins
    /\ \A i \in 1..Len(plugins) : plugins[i].plugin.name # plugin.name
    /\ \A dep \in plugin.dependencies :
           \E i \in 1..Len(plugins) : plugins[i].plugin.name = dep
    /\ plugins' = Append(plugins, [plugin |-> plugin, options |-> opts,
                                   installed |-> FALSE, error |-> FALSE])
    /\ UNCHANGED <<installation, appVars, libraryVars, requestsVars, limiterVars, socketVars>>

\* installAll up to its first await
InstallAll ==
    /\ installation.pc = "idle"
    /\ plugins # <<>>
    /\ \E order \in getSortedPlugins(plugins) :
           installation' = Advance([installation EXCEPT !.sorted = order], plugins, 1)
    /\ UNCHANGED <<plugins, appVars, libraryVars, requestsVars, limiterVars, socketVars>>

\* the awaited install returns: entry.installed = true, installedOrder.push
InstallReturns ==
    /\ installation.pc = "awaiting"
    /\ LET e == installation.sorted[installation.pos]
           entries == [plugins EXCEPT ![e].installed = TRUE]
       IN  /\ plugins' = entries
           /\ installation' =
                  Advance([installation EXCEPT
                              !.installedOrder = Append(@, plugins[e].plugin.name)],
                          entries, installation.pos + 1)
    /\ UNCHANGED <<appVars, libraryVars, requestsVars, limiterVars, socketVars>>

\* the awaited install throws: entry.error is set and installAll rejects
InstallThrows ==
    /\ installation.pc = "awaiting"
    /\ plugins' = [plugins EXCEPT ![installation.sorted[installation.pos]].error = TRUE]
    /\ installation' = [installation EXCEPT !.pc = "failed"]
    /\ UNCHANGED <<appVars, libraryVars, requestsVars, limiterVars, socketVars>>

NextPlugins ==
    \/ \E plugin \in PluginSet, opts \in PluginOptionSets : Register(plugin, opts)
    \/ InstallAll
    \/ InstallReturns
    \/ InstallThrows

SpecPlugins == PluginsInit /\ [][NextPlugins]_vars

----------------------------------------------------------------------------
(* C20: installAll calls the install of a plugin only after the install of *)
(* every plugin named in its dependencies has returned, whatever the       *)
(* priorities the plugins were registered with. The statement is taken for *)
(* registries in which every plugin is enabled.                            *)
C20_DependenciesFirst ==
    (\A i \in 1..Len(plugins) : plugins[i].options.enabled) =>
        \A k \in 1..Len(installation.calls) :
            \A i \in 1..Len(plugins) :
                plugins[i].plugin.name = installation.calls[k] =>
                    \A dep \in plugins[i].plugin.dependencies :
                        \E j \in 1..(k - 1) : installation.calls[j] = dep

----------------------------------------------------------------------------
(* C24 (as stated): a route whose template has no :name segment and no     *)
(* trailing slash-star gets a request of its method if and only if the     *)
(* path of the request is equal to the template. The statement is taken    *)
(* for a route that is the only one of its method and template.            *)
\* no segment of the template starts with a colon and the template does not
\* end with slash-star
IsLiteralTemplate(template) ==
    /\ \A k \in 1..(Len(template) - 1) : ~(template[k] = "/" /\ template[k + 1] = ":")
    /\ ~endsWith(template, <<"/", "*">>)

OnlyOneOfItsKind(i) ==
    \A j \in 1..Len(routes) :
        (routes[j].method = routes[i].method /\ routes[j].path = routes[i].path) => j = i

GivenTo(i) == match.found /\ match.route = i

EqualIgnoringCase(a, b) ==
    LET lower(c) == IF c \in DOMAIN UpperCase THEN UpperCase[c] ELSE c
    IN  /\ Len(a) = Len(b)
        /\ \A k \in 1..Len(a) : lower(a[k]) = lower(b[k])

----------------------------------------------------------------------------
(* C25: for a request whose path is a candidate of no route, whatever the  *)
(* method, the functions invoked are the global middleware, each once and  *)
(* in the order of registration; the 404 response with the body            *)
(* {error: "Not Found", path, method} is returned only after all of them   *)
(* have returned undefined; when one of them returns a response, fetch     *)
(* returns that response (post-processed) and when one throws, the 500 of  *)
(* the catch block. (Written as: the request went this way, or some route  *)
(* is a candidate for its path, the route it was given to or another.)     *)
WentTheNotFoundWay ==
    /\ ~match.found
    /\ \A k \in 1..Len(log) :
           log[k] = [stage |-> "global", idx |-> k, fn |-> middlewares[k]]
    /\ pc = "done" => returnedAt \in {"404", "global", "catch"}
    /\ pc # "done" => returnedAt = "none"
    /\ returnedAt = "404" =>
           /\ Len(log) = Len(middlewares)
           /\ response.status = 404
           /\ response.body = [error |-> "Not Found", path |-> context.pathname,
                               method |-> context.method]
    /\ returnedAt = "global" =>
           /\ result.status # 0
           /\ PostProcessed
           /\ response.status # 404
    /\ returnedAt = "catch" => response.status = 500

C25_NotFoundAfterGlobal ==
    Dispatched =>
        \/ WentTheNotFoundWay
        \/ match.found /\ Hits(match.route)
        \/ \E i \in 1..Len(routes) : Hits(i)

\* two global middleware ran, in order, and the request for "/x" got the 404
C25_Witness ==
    /\ Candidates = {}
    /\ routes # <<>>
    /\ returnedAt = "404"
    /\ Len(middlewares) = 2
    /\ Len(log) = 2
    /\ log[1].idx = 1 /\ log[2].idx = 2

----------------------------------------------------------------------------
(* C26: two routes registered with the same method and path are both in    *)
(* the table, each with its own handler. A request of their method for     *)
(* which they are candidates is never given to the later one: neither its  *)
(* handler nor its middleware list is run for it; a request for their path *)
(* is given to the earliest route with that method and path, and the       *)
(* functions invoked after the global middleware are the middleware and    *)
(* the handler of the route the request was given to.                      *)
SameRegistration(i, j) ==
    routes[i].method = routes[j].method /\ routes[i].path = routes[j].path

\* the request in flight went to the earlier of the routes i and j, or to a
\* route before them, and never to j
WentToTheFirst(i, j) ==
    /\ match.found
    /\ match.route # j
    /\ ( /\ context.pathname = routes[i].path
         /\ \A k \in 1..(i - 1) : ~SameRegistration(k, i) )
       => match.route = i
    /\ (match.route # i /\ SameRegistration(match.route, i)) => match.route < i
    /\ \A k \in 1..Len(log) :
          /\ log[k].stage = "route" =>
                log[k].fn = routes[match.route].middleware[log[k].idx]
          /\ log[k].stage = "handler" =>
                /\ log[k].fn = routes[match.route].handler
                /\ log[k].fn # routes[j].handler

----------------------------------------------------------------------------
(* C27: when fetch answers 405, no function of the application has been    *)
(* invoked for the request: no global middleware, no middleware of a route *)
(* and no handler; nothing was stored in the state of the context, and the *)
(* methods in the answer are those of the routes that are candidates for   *)
(* the path.                                                               *)
C27_NotAllowedBeforeAnyFunction ==
    (returnedAt = "405" \/ (pc = "done" /\ response.status = 405)) =>
        /\ returnedAt = "405"
        /\ log = <<>>
        /\ console = <<>>
        /\ context.state.corsHeaders = <<>>
        /\ ~match.found
        /\ Range(response.body.allowed) = {routes[i].method : i \in Candidates}

\* two global middleware are registered and the only route, which has a
\* middleware of its own, is of another method: 405 and nothing was invoked
C27_Witness ==
    /\ returnedAt = "405"
    /\ Len(middlewares) = 2
    /\ Len(routes) = 1
    /\ routes[1].middleware # <<>>
    /\ log = <<>>

----------------------------------------------------------------------------
(* The tagged cache (createCache of src/src/cache/index.ts): calls of      *)
(* setWithTags and invalidateByTag on one KV namespace, each suspended at  *)
(* its awaits; a key of the namespace is a sequence of pieces of text.     *)

MaxCalls == 3

\* the keys and the tag lists given to setWithTags, and the tags given to
\* invalidateByTag
CacheKeys == { <<"user:123">>, <<"post:456">> }
TagLists == { << <<"user:123">> >>, << <<"users">>, <<"user:123">> >> }
Tags == { <<"user:123">> }

\* getTagKey: `tag:${tag}`
getTagKey(tag) == <<"tag:">> \o tag

CacheInit ==
    /\ namespace = <<>>
    /\ tagCalls = <<>>
    /\ AppAtRest /\ RequestsAtRest /\ LimiterAtRest /\ SocketsAtRest /\ PluginsAtRest
    /\ AuthAtRest /\ SchemaAtRest

\* kv.put, kv.delete and kv.get(key, "json") on the namespace ns
KvPut(ns, key, value) ==
    [k \in DOMAIN ns \cup {key} |-> IF k = key THEN value ELSE ns[k]]

KvDelete(ns, key) == [k \in DOMAIN ns \ {key} |-> ns[k]]

KvGet(ns, key) == IF key \in DOMAIN ns THEN ns[key] ELSE [keys |-> <<>>]

\* setWithTags up to its first await: kv.put of the value is issued and the
\* task of every tag is about to read the index of the tag
SetWithTags(key, tags) ==
    /\ Len(tagCalls) < MaxCalls
    /\ tagCalls' = Append(tagCalls,
           [op |-> "setWithTags", key |-> key, tags |-> tags, valuePut |-> FALSE,
            tasks |-> [i \in 1..Len(tags) |-> [pc |-> "get", tagIndex |-> <<>>]]])
    /\ UNCHANGED <<namespace, appVars, requestsVars, limiterVars, socketVars, pluginVars,
                   authVars, schemaVars>>

\* kv.put(key, JSON.stringify(value)) takes effect
ValuePut(c) ==
    /\ c \in 1..Len(tagCalls)
    /\ tagCalls[c].op = "setWithTags" /\ ~tagCalls[c].valuePut
    /\ namespace' = KvPut(namespace, tagCalls[c].key, [value |-> "data"])
    /\ tagCalls' = [tagCalls EXCEPT ![c].valuePut = TRUE]
    /\ UNCHANGED <<appVars, requestsVars, limiterVars, socketVars, pluginVars,
                   authVars, schemaVars>>

\* the task of the i-th tag: kv.get(tagKey) resolves and the key is pushed
\* onto the copy of the index unless the index has it
TagGet(c, i) ==
    /\ c \in 1..Len(tagCalls)
    /\ tagCalls[c].op = "setWithTags"
    /\ i \in 1..Len(tagCalls[c].tasks)
    /\ tagCalls[c].tasks[i].pc = "get"
    /\ LET existing == KvGet(namespace, getTagKey(tagCalls[c].tags[i])).keys
           key == tagCalls[c].key
       IN  tagCalls' = [tagCalls EXCEPT ![c].tasks[i] =
               IF key \in Range(existing)
               THEN [pc |-> "done", tagIndex |-> existing]
               ELSE [pc |-> "put", tagIndex |-> Append(existing, key)]]
    /\ UNCHANGED <<namespace, appVars, requestsVars, limiterVars, socketVars, pluginVars,
                   authVars, schemaVars>>

\* ... kv.put(tagKey, JSON.stringify(tagIndex)) takes effect
TagPut(c, i) ==
    /\ c \in 1..Len(tagCalls)
    /\ tagCalls[c].op = "setWithTags"
    /\ i \in 1..Len(tagCalls[c].tasks)
    /\ tagCalls[c].tasks[i].pc = "put"
    /\ namespace' = KvPut(namespace, getTagKey(tagCalls[c].tags[i]),
                          [keys |-> tagCalls[c].tasks[i].tagIndex])
    /\ tagCalls' = [tagCalls EXCEPT ![c].tasks[i].pc = "done"]
    /\ UNCHANGED <<appVars, requestsVars, limiterVars, socketVars, pluginVars,
                   authVars, schemaVars>>

\* the call has resolved: Promise.all of setWithTags, the end of invalidateByTag
Completed(call) ==
    IF call.op = "setWithTags"
    THEN call.valuePut /\ \A i \in 1..Len(call.tasks) : call.tasks[i].pc = "done"
    ELSE call.pc = "done"

\* invalidateByTag up to its first await; afterSets records whether every
\* earlier call had resolved when this one was made
InvalidateByTag(tag) ==
    /\ Len(tagCalls) < MaxCalls
    /\ tagCalls' = Append(tagCalls,
           [op |-> "invalidateByTag", tag |-> tag, pc |-> "get", keys |-> <<>>,
            afterSets |-> \A c \in 1..Len(tagCalls) : Completed(tagCalls[c])])
    /\ UNCHANGED <<namespace, appVars, requestsVars, limiterVars, socketVars, pluginVars,
                   authVars, schemaVars>>

\* kv.get(tagKey) resolves: return when there is no index or it is empty
InvalidateGet(c) ==
    /\ c \in 1..Len(tagCalls)
    /\ tagCalls[c].op = "invalidateByTag" /\ tagCalls[c].pc = "get"
    /\ LET tagIndex == KvGet(namespace, getTagKey(tagCalls[c].tag))
       IN  tagCalls' = [tagCalls EXCEPT
               ![c].keys = tagIndex.keys,
               ![c].pc = IF Len(tagIndex.keys) = 0 THEN "done" ELSE "delete"]
    /\ UNCHANGED <<namespace, appVars, requestsVars, limiterVars, socketVars, pluginVars,
                   authVars, schemaVars>>

\* one of the kv.delete(key) of the index's keys takes effect
InvalidateDelete(c, k) ==
    /\ c \in 1..Len(tagCalls)
    /\ tagCalls[c].op = "invalidateByTag" /\ tagCalls[c].pc = "delete"
    /\ k \in 1..Len(tagCalls[c].keys)
    /\ tagCalls[c].keys[k] # <<>>
    /\ namespace' = KvDelete(namespace, tagCalls[c].keys[k])
    /\ tagCalls' = [tagCalls EXCEPT ![c].keys[k] = <<>>]
    /\ UNCHANGED <<appVars, requestsVars, limiterVars, socketVars, pluginVars,
                   authVars, schemaVars>>

\* all of them have: kv.delete(tagKey) takes effect
InvalidateClear(c) ==
    /\ c \in 1..Len(tagCalls)
    /\ tagCalls[c].op = "invalidateByTag" /\ tagCalls[c].pc = "delete"
    /\ \A k \in 1..Len(tagCalls[c].keys) : tagCalls[c].keys[k] = <<>>
    /\ namespace' = KvDelete(namespace, getTagKey(tagCalls[c].tag))
    /\ tagCalls' = [tagCalls EXCEPT ![c].pc = "done"]
    /\ UNCHANGED <<appVars, requestsVars, limiterVars, socketVars, pluginVars,
                   authVars, schemaVars>>

NextCache ==
    \/ \E key \in CacheKeys, tags \in TagLists : SetWithTags(key, tags)
    \/ \E tag \in Tags : InvalidateByTag(tag)
    \/ \E c \in 1..MaxCalls :
           \/ ValuePut(c)
           \/ InvalidateGet(c)
           \/ InvalidateClear(c)
           \/ \E i \in 1..2 : TagGet(c, i) \/ TagPut(c, i) \/ InvalidateDelete(c, i)

SpecCache == CacheInit /\ [][NextCache]_vars

----------------------------------------------------------------------------
(* C21: once the calls of setWithTags have resolved, whether they ran one  *)
(* after the other or at the same time, every stored entry is in the index *)
(* of each of its tags; and a call of invalidateByTag(t) made after they   *)
(* resolved, and resolved itself, has removed every entry that was stored  *)
(* with tag t.                                                             *)
SetCalls == {c \in 1..Len(tagCalls) : tagCalls[c].op = "setWithTags"}

C21_TagInvalidation ==
    /\ (\A c \in 1..Len(tagCalls) : c \in SetCalls /\ Completed(tagCalls[c])) =>
           \A c \in SetCalls :
               \A i \in 1..Len(tagCalls[c].tags) :
                   tagCalls[c].key \in Range(KvGet(namespace,
                                                   getTagKey(tagCalls[c].tags[i])).keys)
    /\ LET d == Len(tagCalls) IN
           ( /\ d > 1
             /\ \A c \in 1..(d - 1) : c \in SetCalls
             /\ d \notin SetCalls
             /\ tagCalls[d].afterSets
             /\ tagCalls[d].pc = "done" ) =>
               \A c \in SetCalls :
                   tagCalls[d].tag \in Range(tagCalls[c].tags) =>
                       tagCalls[c].key \notin DOMAIN namespace

----------------------------------------------------------------------------
(* JWT authentication (createAuth of src/src/auth/index.ts): createToken   *)
(* and verifyToken. A token is kept as its three parts, and a part as the  *)
(* value its text encodes: present = FALSE is the empty or missing part of *)
(* token.split("."), json = FALSE a part whose decoded text JSON.parse     *)
(* rejects. An HMAC-SHA256 signature is kept as the key and the data that  *)
(* were signed: two signatures are equal exactly if both are.              *)

\* options.jwtSecret
JwtSecret == "secret-of-the-application"

\* crypto.subtle.sign("HMAC", key(secret), `${encodedHeader}.${encodedPayload}`)
Sign(secret, encodedHeader, encodedPayload) ==
    [present |-> TRUE, key |-> secret, data |-> <<encodedHeader, encodedPayload>>]

\* the values of the Authorization header: no header, another scheme, and
\* Bearer tokens with every header, payload and signature of the model
AuthHeaders ==
    LET headers == [present : {TRUE}, alg : {"HS256", "HS512", "none"}, typ : {"JWT", "JWE"}]
        payloads == [present : {TRUE}, json : BOOLEAN, sub : {"123"},
                     email : {"user@example.com"}, exp : {0, 999, 2000}]
        reference == [present |-> TRUE, alg |-> "HS256", typ |-> "JWT"]
        signatures(h, p) == { Sign(JwtSecret, h, p),
                              Sign("guess", h, p),
                              Sign(JwtSecret, reference, p),
                              [present |-> FALSE, key |-> "", data |-> <<h, p>>] }
        tokens == UNION { { [header |-> h, payload |-> p, signature |-> s] :
                              s \in signatures(h, p) } :
                          h \in headers, p \in payloads }
    IN  [scheme : {"Bearer ", "Basic "}, token : tokens]

\* the AuthResult while verifyToken has not resolved
NoAuthResult == [success |-> FALSE, error |-> "", user |-> [id |-> "", email |-> ""]]

\* createToken(user) at time now (seconds), with the default sessionDuration
createToken(user, now) ==
    LET header == [present |-> TRUE, alg |-> "HS256", typ |-> "JWT"]
        payload == [present |-> TRUE, json |-> TRUE, sub |-> user.id,
                    email |-> user.email, exp |-> now + 60 * 60 * 24 * 7]
    IN  [header |-> header, payload |-> payload,
         signature |-> Sign(JwtSecret, header, payload)]

\* verifyToken(authHeader) at time now
verifyToken(authHeader, now) ==
    LET token == authHeader.token
        fails(error) == [NoAuthResult EXCEPT !.error = error]
    IN  IF authHeader.scheme # "Bearer "
        THEN fails("Invalid authorization header")
        ELSE IF ~token.header.present \/ ~token.payload.present \/ ~token.signature.present
        THEN fails("Invalid token format")
        ELSE IF token.signature # Sign(JwtSecret, token.header, token.payload)
        THEN fails("Invalid token signature")
        ELSE IF ~token.payload.json
        THEN fails("Invalid token")
        ELSE IF token.payload.exp # 0 /\ token.payload.exp < now
        THEN fails("Token expired")
        ELSE [success |-> TRUE, error |-> "",
              user |-> [id |-> token.payload.sub, email |-> token.payload.email]]

\* a request arrives with an Authorization header, or none has arrived yet
AuthInit ==
    /\ authorization \in AuthHeaders \cup {[scheme |-> "", token |-> <<>>]}
    /\ authResult = NoAuthResult
    /\ AppAtRest /\ RequestsAtRest /\ LimiterAtRest /\ SocketsAtRest /\ PluginsAtRest
    /\ CacheAtRest /\ SchemaAtRest

\* createToken for a user; the client sends the token back as a Bearer token
CreateToken(user, now) ==
    /\ authorization.scheme = ""
    /\ authorization' = [scheme |-> "Bearer ", token |-> createToken(user, now)]
    /\ UNCHANGED <<authResult, appVars, requestsVars, limiterVars, socketVars, pluginVars,
                   cacheVars, schemaVars>>

VerifyToken(now) ==
    /\ authorization.scheme # ""
    /\ authResult = NoAuthResult
    /\ authResult' = verifyToken(authorization, now)
    /\ UNCHANGED <<authorization, appVars, requestsVars, limiterVars, socketVars, pluginVars,
                   cacheVars, schemaVars>>

NextAuth ==
    \/ \E id \in {"123", "456"}, now \in {1000} :
           CreateToken([id |-> id, email |-> "user@example.com"], now)
    \/ \E now \in {1000} : VerifyToken(now)

SpecAuth == AuthInit /\ [][NextAuth]_vars

----------------------------------------------------------------------------
(* C22: verifyToken resolves with success only for a token whose header    *)
(* has alg "HS256" and typ "JWT", whatever the signature and the payload   *)
(* of the token.                                                           *)
C22_HeaderValidated ==
    authResult.success =>
        /\ authorization.token.header.alg = "HS256"
        /\ authorization.token.header.typ = "JWT"

----------------------------------------------------------------------------
(* Validation schemas (StringSchema and SchemaImpl of the validation       *)
(* module, src/unnamed/part_009): v.string(), the chained constraints      *)
(* minLength and maxLength, and parse. A validator is kept as the check it *)
(* makes and its argument; schema.calls records the chain that was written *)
(* to build the schema object.                                             *)

MaxChain == 2

\* new StringSchema(validators): the type check, then the validators given
StringSchema(validators) ==
    [validators |-> <<[check |-> "string", arg |-> 0]>> \o validators,
     isOptional |-> FALSE]

\* private getValidators(): return []
getValidators(object) == <<>>

\* newValidators.slice(1)
Slice1(list) == IF list = <<>> THEN <<>> ELSE Tail(list)

minLength(object, min) ==
    LET newValidators == getValidators(object) \o <<[check |-> "minLength", arg |-> min]>>
    IN  StringSchema(Slice1(newValidators))

maxLength(object, max) ==
    LET newValidators == getValidators(object) \o <<[check |-> "maxLength", arg |-> max]>>
    IN  StringSchema(Slice1(newValidators))

\* SchemaImpl.parse: the errors of every validator, in order
RECURSIVE RunValidators(_, _)
RunValidators(validators, value) ==
    IF validators = <<>> THEN <<>>
    ELSE LET validator == Head(validators)
             failed ==
                 CASE validator.check = "string" -> value.type # "string"
                   [] validator.check = "minLength" ->
                          value.type = "string" /\ Len(value.chars) < validator.arg
                   [] validator.check = "maxLength" ->
                          value.type = "string" /\ Len(value.chars) > validator.arg
         IN  (IF failed THEN <<[field |-> "value", message |-> validator.check]>> ELSE <<>>)
             \o RunValidators(Tail(validators), value)

parse(object, value) ==
    IF value.type = "undefined" /\ object.isOptional
    THEN [success |-> TRUE, errors |-> <<>>]
    ELSE LET errors == RunValidators(object.validators, value)
         IN  [success |-> errors = <<>>, errors |-> errors]

\* the values given to parse: strings of 0 to 3 characters, a number, undefined
Values ==
    {[type |-> "string", chars |-> [k \in 1..n |-> "x"]] : n \in 0..3}
        \cup {[type |-> "number", chars |-> <<>>], [type |-> "undefined", chars |-> <<>>]}

SchemaInit ==
    /\ schema = [calls |-> <<>>, object |-> [validators |-> <<>>, isOptional |-> FALSE]]
    /\ validation = [done |-> FALSE, value |-> [type |-> "undefined", chars |-> <<>>],
                     result |-> [success |-> FALSE, errors |-> <<>>]]
    /\ AppAtRest /\ RequestsAtRest /\ LimiterAtRest /\ SocketsAtRest /\ PluginsAtRest
    /\ CacheAtRest /\ AuthAtRest

\* v.string()
String ==
    /\ schema.calls = <<>>
    /\ schema' = [calls |-> <<[method |-> "string", arg |-> 0]>>,
                  object |-> StringSchema(<<>>)]
    /\ UNCHANGED <<validation, appVars, requestsVars, limiterVars, socketVars, pluginVars,
                   cacheVars, authVars>>

\* .minLength(min) on the schema built so far
MinLength(min) ==
    /\ schema.calls # <<>> /\ ~validation.done
    /\ Len(schema.calls) <= MaxChain
    /\ schema' = [calls |-> Append(schema.calls, [method |-> "minLength", arg |-> min]),
                  object |-> minLength(schema.object, min)]
    /\ UNCHANGED <<validation, appVars, requestsVars, limiterVars, socketVars, pluginVars,
                   cacheVars, authVars>>

\* .maxLength(max) on the schema built so far
MaxLength(max) ==
    /\ schema.calls # <<>> /\ ~validation.done
    /\ Len(schema.calls) <= MaxChain
    /\ schema' = [calls |-> Append(schema.calls, [method |-> "maxLength", arg |-> max]),
                  object |-> maxLength(schema.object, max)]
    /\ UNCHANGED <<validation, appVars, requestsVars, limiterVars, socketVars, pluginVars,
                   cacheVars, authVars>>

\* schema.parse(value)
Parse(value) ==
    /\ schema.calls # <<>> /\ ~validation.done
    /\ validation' = [done |-> TRUE, value |-> value, result |-> parse(schema.object, value)]
    /\ UNCHANGED <<schema, appVars, requestsVars, limiterVars, socketVars, pluginVars,
                   cacheVars, authVars>>

NextSchema ==
    \/ String
    \/ \E min \in {1, 2} : MinLength(min)
    \/ \E max \in {1, 2} : MaxLength(max)
    \/ \E value \in Values : Parse(value)

SpecSchema == SchemaInit /\ [][NextSchema]_vars

----------------------------------------------------------------------------
(* C23: parse of a schema enforces every constraint of the chain it was    *)
(* built with: it fails for every string shorter than the n of a           *)
(* minLength(n) of the chain and for every string longer than the m of a   *)
(* maxLength(m) of the chain.                                              *)
C23_ChainedConstraintsEnforced ==
    (validation.done /\ validation.value.type = "string") =>
        \A k \in 1..Len(schema.calls) :
            /\ ( /\ schema.calls[k].method = "minLength"
                 /\ Len(validation.value.chars) < schema.calls[k].arg )
               => ~validation.result.success
            /\ ( /\ schema.calls[k].method = "maxLength"
                 /\ Len(validation.value.chars) > schema.calls[k].arg )
               => ~validation.result.success

============================================================================
